---- MODULE Spec2Model ----
(***************************************************************************)
(* Chunk lifecycle, terrain generation and block storage of the voxel      *)
(* world engine (ChunkManager + NoiseGenerator), as a state machine.       *)
(*                                                                         *)
(* Heights and block y coordinates are JavaScript numbers in the source    *)
(* and become fractional when the mountain bonus or a lake is applied.     *)
(* The model keeps them as fixed-point integers counted in 1/HU of a       *)
(* block ("units"); x and z are always integers in the source.             *)
(***************************************************************************)
EXTENDS Integers, Sequences, FiniteSets, TLC

----------------------------------------------------------------------------
(* Program constants                                                       *)

CHUNK_SIZE == 16
RENDER_DISTANCE == 2
MAX_VISIBLE_CHUNKS == 25
MAX_BLOCKS_PER_FRAME == 100
MAX_HEIGHT == 40
STEP_SIZE == 1
FILL_GROUND == TRUE
WATER_LEVEL == 4
RIVER_WIDTH == 2
RIVER_DEPTH == 2
INSTANCED_BLOCK_TYPES == {"DIRT", "STONE", "GRASS"}
\* initInstanceMeshes: new InstancedMesh(geometry, material, 1000)
INSTANCE_CAPACITY == 1000
\* initInstanceMeshes: instancedMesh.count = 0, never assigned again
INSTANCED_MESH_COUNT == 0
\* initChunks: the closest 5 chunks are created synchronously
SYNC_CHUNKS == 5
\* initChunks: priority = 1000 - floor(distance * 100)
PRIORITY_BASE == 1000
\* generateTerrain: minDepth = max(0, height - 12) when FILL_GROUND
FILL_DEPTH == 12
\* generateTerrain: river columns are lowered by 6 blocks
RIVER_DROP == 6
\* generateTerrain: a lake lowers its centre by 5 blocks
LAKE_DROP == 5

TREE_TYPES ==
  << [name |-> "oak",  trunkHeight |-> 4, leavesRadius |-> 2, conical |-> FALSE, dense |-> FALSE],
     [name |-> "pine", trunkHeight |-> 6, leavesRadius |-> 1, conical |-> TRUE,  dense |-> FALSE],
     [name |-> "bush", trunkHeight |-> 1, leavesRadius |-> 2, conical |-> FALSE, dense |-> TRUE] >>

BLOCK_TYPES == {"AIR", "DIRT", "STONE", "GRASS", "WOOD", "LEAVES", "WATER", "GLASS", "SAND"}

\* initChunks' catch block: this.getOrCreateChunk(0, 0, 1000)
FALLBACK_PRIORITY == 1000

\* NoiseGenerator.seededRandom: (seed * 9301 + 49297) % 233280
LCG_A == 9301
LCG_C == 49297
LCG_M == 233280
\* NoiseGenerator.initialize: for (let i = 0; i < 256; i++)
TABLE_SIZE == 256

----------------------------------------------------------------------------
(* Bounds of the model                                                     *)

\* fixed-point resolution: heights are counted in 1/HU of a block
HU == 2
\* how often more than 16 ms may pass between two callbacks in one run
MaxTicks == 1
\* how many calls the host's scene setup and render loop make in one run
MaxCalls == 2
\* how many block edits (mouse, network) are made in one run
MaxEdits == 2
\* how many noise calls one run records
MaxNoiseCalls == 2

----------------------------------------------------------------------------
(* Arithmetic helpers                                                      *)

Max(a, b) == IF a >= b THEN a ELSE b
Min(a, b) == IF a <= b THEN a ELSE b
Abs(a) == IF a < 0 THEN -a ELSE a

RECURSIVE IsqrtIter(_, _, _)
IsqrtIter(n, lo, hi) ==
  IF lo >= hi THEN lo
  ELSE LET mid == (lo + hi + 1) \div 2
       IN IF mid * mid <= n THEN IsqrtIter(n, mid, hi) ELSE IsqrtIter(n, lo, mid - 1)

\* Math.floor(Math.sqrt(n)) for a natural number n (the search stays below
\* the square root of the largest 32-bit integer)
Isqrt(n) == IsqrtIter(n, 0, Min(n, 40000))

----------------------------------------------------------------------------
(* NoiseGenerator                                                          *)

\* The seeds of the noise generator that the model distinguishes.  The
\* floating-point noise sum of getTerrainHeight (base height + main noise
\* + ridges - valleys) is drawn from a family of integer height fields
\* indexed by the seed; the sum can be zero or negative in a deep valley.
Seeds == {1, 2, 3}

NoiseSum(s, x, z) ==
  CASE s = 1 -> 6 + ((x + 2 * z) % 3)
    [] s = 2 -> ((x + z) % 6) - 1
    [] OTHER -> 11 + 3 * ((x + z) % 4)

\* NoiseGenerator.getTerrainHeight: Math.max(1, Math.floor(height))
getTerrainHeight(s, x, z) == Max(1, NoiseSum(s, x, z))

\* generateTerrain: mountainFactor * 15 for terrainType > MOUNTAIN_THRESHOLD,
\* in units; it is not a whole number of blocks in general
MountainBonus(s, x, z) ==
  IF s = 3 /\ (x + z) % 4 = 3 THEN HU + 1 ELSE 0

\* NoiseGenerator.seededRandom: the next value of this.seed; the number
\* returned is that seed / 233280.  The product seed * 9301 is split in two
\* so that no intermediate value leaves the 32-bit range.
seededRandom(s) ==
  (((s * (LCG_A \div 100)) % LCG_M) * 100 + s * (LCG_A % 100) + LCG_C) % LCG_M

\* the first n values this.seed takes when seededRandom is called n times
\* from seed s, in the order drawn; the run is cut in two halves
RECURSIVE Draws(_, _)
Draws(s, n) ==
  IF n = 1 THEN << seededRandom(s) >>
  ELSE Draws(s, n \div 2) \o Draws(Draws(s, n \div 2)[n \div 2], n - n \div 2)

\* variant: the tables are stored once, not twice in a row
initializeOnce(s, drawn) ==
  [given |-> s,
   seed |-> drawn[2 * TABLE_SIZE],
   permutation |->
     [i \in 0..(TABLE_SIZE - 1) |-> (drawn[2 * i + 1] * TABLE_SIZE) \div LCG_M],
   secondaryPermutation |->
     [i \in 0..(TABLE_SIZE - 1) |-> (drawn[2 * i + 2] * TABLE_SIZE) \div LCG_M]]

\* initialize on the 512 draws: p[i] and p2[i] are Math.floor(seededRandom()
\* * 256), drawn in turn; both tables are stored twice in a row.  given is
\* the constructor's argument, seed the field after the draws.
initialize(s, drawn) ==
  [given |-> s,
   seed |-> drawn[2 * TABLE_SIZE],
   permutation |->
     [i \in 0..(2 * TABLE_SIZE - 1) |->
        (drawn[2 * (i % TABLE_SIZE) + 1] * TABLE_SIZE) \div LCG_M],
   secondaryPermutation |->
     [i \in 0..(2 * TABLE_SIZE - 1) |->
        (drawn[2 * (i % TABLE_SIZE) + 2] * TABLE_SIZE) \div LCG_M]]

\* constructor: this.seed = seed; this.initialize()
NoiseGenerator(s) == initialize(s, Draws(s, 2 * TABLE_SIZE))

\* The noise functions are evaluated on the points whose scaled coordinates
\* (x * 0.01 and so on) are whole multiples of 1/2, where every intermediate
\* value is a dyadic fraction: coordinates and fractions are counted in
\* halves, and each lerp doubles the denominator of what it blends.

\* a + t * (b - a), t in halves; the result has twice the denominator of a, b
lerp(a, b, t) == 2 * a + t * (b - a)

\* t * t * t * (t * (t * 6 - 15) + 10), argument and result in halves
fade(t) == (t * t * t * (t * (3 * t - 15) + 20)) \div 8

grad(hash, x, y, z) ==
  LET h == hash % 16
      u == IF h < 8 THEN x ELSE y
      v == IF h < 4 THEN y ELSE IF h = 12 \/ h = 14 THEN x ELSE z
  IN (IF h % 2 = 0 THEN u ELSE -u) + (IF (h \div 2) % 2 = 0 THEN v ELSE -v)

\* perm[i] + d as noise computes its hashes; reading outside the table gives
\* undefined and the sum is NaN, written -1
Hash(perm, i, d) == IF i \in DOMAIN perm THEN perm[i] + d ELSE -1

\* the indices at which one noise call reads its table: X, X + 1, the six
\* hashes A, A + 1, B, B + 1 and AA, AB, BA, BB, and the latter four plus one
NoiseIndices(g, scaleX, scaleY, scaleZ, useSecondary) ==
  LET X == (scaleX \div 2) % TABLE_SIZE
      Y == (scaleY \div 2) % TABLE_SIZE
      Z == (scaleZ \div 2) % TABLE_SIZE
      perm == IF useSecondary THEN g.secondaryPermutation ELSE g.permutation
      A == Hash(perm, X, Y)
      AA == Hash(perm, A, Z)
      AB == Hash(perm, A + 1, Z)
      B == Hash(perm, X + 1, Y)
      BA == Hash(perm, B, Z)
      BB == Hash(perm, B + 1, Z)
  IN {X, X + 1, A, A + 1, B, B + 1, AA, BA, AB, BB, AA + 1, BA + 1, AB + 1, BB + 1}

\* variant: every noise call draws from the seeded random generator
noiseAdvancesSeed(g, scaleX, scaleY, scaleZ, useSecondary) ==
  [generator |-> [g EXCEPT !.seed = seededRandom(@)],
   ret |-> << g.seed % 32, 32 >>]

\* NoiseGenerator.noise; scaleX, scaleY, scaleZ are the scaled coordinates in
\* halves.  The result of the three nested lerps is in sixteenths, so
\* (result + 1) / 2 is (result + 16) / 32; ret is << numerator, denominator >>,
\* generator the object after the call.
noise(g, scaleX, scaleY, scaleZ, useSecondary) ==
  LET X == (scaleX \div 2) % TABLE_SIZE
      Y == (scaleY \div 2) % TABLE_SIZE
      Z == (scaleZ \div 2) % TABLE_SIZE
      xf == scaleX - 2 * (scaleX \div 2)
      yf == scaleY - 2 * (scaleY \div 2)
      zf == scaleZ - 2 * (scaleZ \div 2)
      u == fade(xf)
      v == fade(yf)
      w == fade(zf)
      perm == IF useSecondary THEN g.secondaryPermutation ELSE g.permutation
      A == perm[X] + Y
      AA == perm[A] + Z
      AB == perm[A + 1] + Z
      B == perm[X + 1] + Y
      BA == perm[B] + Z
      BB == perm[B + 1] + Z
      result ==
        lerp(lerp(lerp(grad(perm[AA], xf, yf, zf),
                       grad(perm[BA], xf - 2, yf, zf), u),
                  lerp(grad(perm[AB], xf, yf - 2, zf),
                       grad(perm[BB], xf - 2, yf - 2, zf), u), v),
             lerp(lerp(grad(perm[AA + 1], xf, yf, zf - 2),
                       grad(perm[BA + 1], xf - 2, yf, zf - 2), u),
                  lerp(grad(perm[AB + 1], xf, yf - 2, zf - 2),
                       grad(perm[BB + 1], xf - 2, yf - 2, zf - 2), u), v), w)
  IN [generator |-> g, ret |-> << result + 16, 32 >>]

\* the loop of fractalNoise from octave i on; frequency is 2^i and amplitude
\* persistence^i, with persistence in halves; total and maxValue are kept
\* over the common denominator 2^(octaves - 1), total in 32nds of it
RECURSIVE FractalLoop(_, _, _, _, _, _, _, _)
FractalLoop(acc, i, x, y, z, octaves, persistence, useSecondary) ==
  IF i >= octaves THEN acc
  ELSE FractalLoop(
         [generator |-> noise(acc.generator, x * 2^i, y * 2^i, z * 2^i, useSecondary).generator,
          total |-> acc.total
                    + noise(acc.generator, x * 2^i, y * 2^i, z * 2^i, useSecondary).ret[1]
                      * persistence^i * 2^(octaves - 1 - i),
          maxValue |-> acc.maxValue + persistence^i * 2^(octaves - 1 - i)],
         i + 1, x, y, z, octaves, persistence, useSecondary)

\* NoiseGenerator.fractalNoise: total / maxValue as << numerator, denominator >>
fractalNoise(g, x, y, z, octaves, persistence, useSecondary) ==
  [generator |->
     FractalLoop([generator |-> g, total |-> 0, maxValue |-> 0],
                 0, x, y, z, octaves, persistence, useSecondary).generator,
   ret |->
     << FractalLoop([generator |-> g, total |-> 0, maxValue |-> 0],
                    0, x, y, z, octaves, persistence, useSecondary).total,
        32 * FractalLoop([generator |-> g, total |-> 0, maxValue |-> 0],
                         0, x, y, z, octaves, persistence, useSecondary).maxValue >>]

\* getTerrainHeight's choices by biome; biomeValue is in hundredths,
\* persistence in hundredths, scale in tenths

\* variant: the plains band includes its upper threshold
baseHeightInclusive(biomeValue) ==
  IF biomeValue <= 30 THEN 5
  ELSE IF biomeValue <= 60 THEN 8
  ELSE IF biomeValue <= 80 THEN 12
  ELSE 15

baseHeight(biomeValue) ==
  IF biomeValue < 30 THEN 5
  ELSE IF biomeValue < 60 THEN 8
  ELSE IF biomeValue < 80 THEN 12
  ELSE 15

persistence(biomeValue) ==
  IF biomeValue < 30 THEN 40
  ELSE IF biomeValue < 60 THEN 50
  ELSE IF biomeValue < 80 THEN 55
  ELSE 60

octaves(biomeValue) ==
  IF biomeValue < 30 THEN 4
  ELSE IF biomeValue < 60 THEN 6
  ELSE IF biomeValue < 80 THEN 7
  ELSE 8

scale(biomeValue) ==
  IF biomeValue < 30 THEN 8
  ELSE IF biomeValue < 60 THEN 10
  ELSE IF biomeValue < 80 THEN 13
  ELSE 16

mountainHeight(biomeValue) ==
  IF biomeValue < 30 THEN 8
  ELSE IF biomeValue < 60 THEN 12
  ELSE IF biomeValue < 80 THEN 18
  ELSE 25

\* 1.0 - Math.abs(0.5 - fractalNoise(...)) * 2, in hundredths
ridgeNoise(ridgeFractal) == 100 - Abs(50 - ridgeFractal) * 2

\* (0.2 - valleyNoise) * 5, in hundredths
valleyDepth(valleyNoise) == (20 - valleyNoise) * 5

\* the sum getTerrainHeight rounds, in millionths: base height, main shape,
\* ridges where biomeValue > 0.5, valleys where valleyNoise < 0.2; the four
\* noise values are in hundredths
height(biomeValue, mainNoise, ridgeFractal, valleyNoise) ==
  baseHeight(biomeValue) * 1000000
  + mainNoise * mountainHeight(biomeValue) * 10000
  + (IF biomeValue > 50
     THEN ridgeNoise(ridgeFractal) * ridgeNoise(ridgeFractal) * (biomeValue - 50) * 10
     ELSE 0)
  - (IF valleyNoise < 20
     THEN valleyDepth(valleyNoise) * valleyDepth(valleyNoise) * 15 * 100
     ELSE 0)

\* NoiseGenerator.getTerrainHeight on the values its four fractalNoise calls
\* returned: what it chose for the biome and Math.max(1, Math.floor(height))
TerrainHeightOf(biomeValue, mainNoise, ridgeFractal, valleyNoise) ==
  [biomeValue |-> biomeValue,
   baseHeight |-> baseHeight(biomeValue),
   persistence |-> persistence(biomeValue),
   octaves |-> octaves(biomeValue),
   scale |-> scale(biomeValue),
   mountainHeight |-> mountainHeight(biomeValue),
   ret |-> Max(1, height(biomeValue, mainNoise, ridgeFractal, valleyNoise) \div 1000000)]

----------------------------------------------------------------------------
(* Keys                                                                    *)

\* ChunkManager.getChunkKey: floor(x / 16), floor(z / 16)
getChunkKey(x, z) == << x \div CHUNK_SIZE, z \div CHUNK_SIZE >>

\* ChunkManager.getBlockKey: floor(x), floor(y), floor(z); y is in units
getBlockKey(x, yU, z) == << x, yU \div HU, z >>

----------------------------------------------------------------------------
(* Math.random                                                             *)

\* The draws generateTerrain makes for one chunk: river, lake, the trees
\* (at most 3, each with a column of the chunk and a tree type) and a value
\* that decides the per-block draws.  The code draws riverX, riverZ in
\* 0..15, lakeX, lakeZ in 5..10, lakeRadius in 3..5, and a lake only
\* without a river.
NoFeature ==
  [hasRiver |-> FALSE, riverDirection |-> 0, riverX |-> -1, riverZ |-> -1,
   hasLake |-> FALSE, lakeX |-> -1, lakeZ |-> -1, lakeRadius |-> 0,
   dice |-> 0, trees |-> << >>]

Tree(x, z, t) == [x |-> x, z |-> z, type |-> t]

\* The outcomes of Math.random are read from a tape: each generateTerrain
\* call reads one entry (its river, lake, tree and per-block draws) and
\* moves on. The entries are: three trees, a pine first; nothing; a river
\* along z with an oak; a lake with three pines, two on the same column;
\* a river along x.
RandomTape ==
  << [NoFeature EXCEPT !.dice = 1,
                       !.trees = << Tree(0, 0, 2), Tree(0, 1, 1), Tree(0, 15, 3) >>],
     NoFeature,
     [NoFeature EXCEPT !.hasRiver = TRUE, !.riverDirection = 0, !.riverX = 0,
                       !.dice = 2, !.trees = << Tree(0, 0, 1) >>],
     [NoFeature EXCEPT !.hasLake = TRUE, !.lakeX = 5, !.lakeZ = 5, !.lakeRadius = 5,
                       !.dice = 3,
                       !.trees = << Tree(0, 2, 2), Tree(0, 3, 2), Tree(0, 2, 2) >>],
     [NoFeature EXCEPT !.hasRiver = TRUE, !.riverDirection = 1, !.riverZ = 3,
                       !.dice = 4] >>

\* Math.random() < pct / 100 for the draw made at one block site
Draw(dice, x, yU, z, pct) ==
  ((7 * x + 13 * z + 5 * (yU \div HU) + 31 * dice) % 100) < pct

----------------------------------------------------------------------------
(* ChunkManager.createBlock                                                *)

\* An individual THREE.Mesh is identified by where and from what it was
\* built; an instanced block holds its slot index instead (slot >= 0).
NewMesh(x, yU, z, type) == [slot |-> -1, at |-> << x, yU, z >>, material |-> type]
InstanceHandle(id) == [slot |-> id, at |-> << >>, material |-> ""]

Translation(x, yU, z) == << "translation", x, yU, z >>
ZeroScale == << "scale", 0, 0, 0 >>

BlockExists(chunk, blockKey) == blockKey \in DOMAIN chunk.blocks

\* variant: the block map is not consulted; the new block replaces the old
createBlockOverwrites(m, key, x, yU, z, type) ==
  LET chunk == m.chunks[key]
      blockKey == getBlockKey(x, yU, z)
      block == [type |-> type, position |-> << x, yU, z >>,
                mesh |-> NewMesh(x, yU, z, type), isInstanced |-> FALSE]
  IN IF type = "AIR" THEN m
     ELSE [m EXCEPT
             !.chunks[key].blocks = (blockKey :> block) @@ @,
             !.chunks[key].blockCount = @ + 1,
             !.chunks[key].mesh.children = @ \cup {block.mesh},
             !.made = @ + 1]

\* variant: the type and the chunk bounds are not tested
createBlockStoresAny(m, key, x, yU, z, type) ==
  LET chunk == m.chunks[key]
      blockKey == getBlockKey(x, yU, z)
      block == [type |-> type, position |-> << x, yU, z >>,
                mesh |-> NewMesh(x, yU, z, type), isInstanced |-> FALSE]
  IN IF BlockExists(chunk, blockKey) THEN m
     ELSE [m EXCEPT
             !.chunks[key].blocks = @ @@ (blockKey :> block),
             !.chunks[key].blockCount = @ + 1,
             !.chunks[key].mesh.children = @ \cup {block.mesh},
             !.made = @ + 1]

createBlock(m, key, x, yU, z, type) ==
  LET chunk == m.chunks[key]
      chunkX == chunk.position[1] * CHUNK_SIZE
      chunkZ == chunk.position[2] * CHUNK_SIZE
      blockKey == getBlockKey(x, yU, z)
      instanceId == m.instanceCount[type]
      instanced == /\ type \in INSTANCED_BLOCK_TYPES
                   /\ type \in DOMAIN m.instanceCount
                   /\ instanceId < INSTANCED_MESH_COUNT
      mesh == IF instanced THEN InstanceHandle(instanceId) ELSE NewMesh(x, yU, z, type)
      block == [type |-> type, position |-> << x, yU, z >>,
                mesh |-> mesh, isInstanced |-> instanced]
      chunk2 == [chunk EXCEPT
                   !.blocks = @ @@ (blockKey :> block),
                   !.blockCount = @ + 1,
                   !.mesh.children = IF instanced THEN @ ELSE @ \cup {mesh}]
  IN IF type = "AIR" THEN m
     ELSE IF x < chunkX \/ x >= chunkX + CHUNK_SIZE
             \/ z < chunkZ \/ z >= chunkZ + CHUNK_SIZE THEN m
     ELSE IF BlockExists(chunk, blockKey) THEN m
     ELSE [m EXCEPT
             !.chunks[key] = chunk2,
             !.instanceCount = IF instanced THEN [@ EXCEPT ![type] = instanceId + 1] ELSE @,
             !.instanceMatrix = IF instanced
                                THEN @ @@ (<< type, instanceId >> :> Translation(x, yU, z))
                                ELSE @,
             !.made = @ + 1]

\* createBlock(...); this.blockCreationTracker.count++
createCounted(m, key, x, yU, z, type) ==
  [createBlock(m, key, x, yU, z, type) EXCEPT !.count = @ + 1]

----------------------------------------------------------------------------
(* ChunkManager.createTree                                                 *)

\* The (y, lx, lz) triples of one leaf loop nest, in the order the loops
\* visit them: y in 0..layers-1, lx and lz in -radius..radius.
LeafGrid(layers, radius) ==
  LET w == 2 * radius + 1
  IN [i \in 1..(layers * w * w) |->
        [y  |-> (i - 1) \div (w * w),
         lx |-> (((i - 1) % (w * w)) \div w) - radius,
         lz |-> ((i - 1) % w) - radius]]

\* pine: layerRadius = max(0, leavesRadius - floor(y / 2)); the trunk
\* column is skipped; |lx| + |lz| <= layerRadius + 1
ConicalLeaf(tt, c) ==
  LET layerRadius == Max(0, tt.leavesRadius - (c.y \div 2))
  IN /\ Abs(c.lx) <= layerRadius /\ Abs(c.lz) <= layerRadius
     /\ ~(c.lx = 0 /\ c.lz = 0)
     /\ Abs(c.lx) + Abs(c.lz) <= layerRadius + 1

\* bush: two layers, the trunk position is skipped in the lower one
DenseLeaf(tt, c) ==
  /\ ~(c.y = 0 /\ c.lx = 0 /\ c.lz = 0)
  /\ c.lx * c.lx + c.lz * c.lz <= tt.leavesRadius * tt.leavesRadius + 1

\* oak: three layers, the middle one wider
OakLeaf(tt, c) ==
  LET layerRadius == IF c.y = 1 THEN tt.leavesRadius ELSE tt.leavesRadius - 1
  IN /\ Abs(c.lx) <= layerRadius /\ Abs(c.lz) <= layerRadius
     /\ ~(c.y < 2 /\ c.lx = 0 /\ c.lz = 0)
     /\ c.lx * c.lx + c.lz * c.lz <= layerRadius * layerRadius + (IF c.y = 1 THEN 1 ELSE 0)

\* the leaves a tree asks for, in loop order, as offsets from (x, baseY, z)
LeafCells(tt) ==
  IF tt.conical
  THEN LET grid == LeafGrid(tt.trunkHeight - 1, tt.leavesRadius)
           keep(c) == ConicalLeaf(tt, c)
           cells == SelectSeq(grid, keep)
       IN [i \in 1..Len(cells) |->
             [lx |-> cells[i].lx, dy |-> tt.trunkHeight - cells[i].y, lz |-> cells[i].lz]]
  ELSE IF tt.dense
  THEN LET grid == LeafGrid(2, tt.leavesRadius)
           keep(c) == DenseLeaf(tt, c)
           cells == SelectSeq(grid, keep)
       IN [i \in 1..Len(cells) |->
             [lx |-> cells[i].lx, dy |-> cells[i].y, lz |-> cells[i].lz]]
  ELSE LET grid == LeafGrid(3, tt.leavesRadius)
           keep(c) == OakLeaf(tt, c)
           cells == SelectSeq(grid, keep)
       IN [i \in 1..Len(cells) |->
             [lx |-> cells[i].lx, dy |-> tt.trunkHeight - 2 + cells[i].y, lz |-> cells[i].lz]]

\* for (y = 0; y < trunkHeight; y++) if (count < MAX) { createBlock WOOD; count++ }
RECURSIVE TreeTrunk(_, _, _, _, _, _, _)
TreeTrunk(m, key, x, baseYU, z, tt, y) ==
  IF y >= tt.trunkHeight THEN m
  ELSE IF m.count < MAX_BLOCKS_PER_FRAME
       THEN TreeTrunk(createCounted(m, key, x, baseYU + y * HU, z, "WOOD"),
                      key, x, baseYU, z, tt, y + 1)
       ELSE m

\* if (count >= MAX) continue; ... createBlock LEAVES; count++
RECURSIVE TreeLeaves(_, _, _, _, _, _, _)
TreeLeaves(m, key, x, baseYU, z, cells, i) ==
  IF i > Len(cells) THEN m
  ELSE IF m.count >= MAX_BLOCKS_PER_FRAME THEN m
  ELSE TreeLeaves(createCounted(m, key, x + cells[i].lx, baseYU + cells[i].dy * HU,
                                z + cells[i].lz, "LEAVES"),
                  key, x, baseYU, z, cells, i + 1)

\* pine only: the top leaf is created after the loops, outside any budget test
TreeTopLeaf(m, key, x, baseYU, z, tt) ==
  IF tt.conical
  THEN createCounted(m, key, x, baseYU + tt.trunkHeight * HU, z, "LEAVES")
  ELSE m

createTree(m, key, x, baseYU, z, tt) ==
  LET m1 == TreeTrunk(m, key, x, baseYU, z, tt, 0)
      m2 == TreeLeaves(m1, key, x, baseYU, z, LeafCells(tt), 1)
  IN TreeTopLeaf(m2, key, x, baseYU, z, tt)

----------------------------------------------------------------------------
(* ChunkManager.generateTerrain                                            *)

\* 5 * depthFactor with depthFactor = 1 - distToLake / lakeRadius, rounded
\* down to units (distToLake is a square root, kept to 1/100)
LakeDrop(g, x, z) ==
  LET d2 == (x - g.lakeX) * (x - g.lakeX) + (z - g.lakeZ) * (z - g.lakeZ)
      dist100 == Isqrt(d2 * 10000)
  IN (LAKE_DROP * HU * (100 * g.lakeRadius - dist100)) \div (100 * g.lakeRadius)

InLake(g, x, z) ==
  /\ g.hasLake
  /\ (x - g.lakeX) * (x - g.lakeX) + (z - g.lakeZ) * (z - g.lakeZ)
       < g.lakeRadius * g.lakeRadius

InRiver(g, x, z) ==
  /\ g.hasRiver
  /\ \/ g.riverDirection = 0 /\ Abs(x - g.riverX) < RIVER_WIDTH
     \/ g.riverDirection = 1 /\ Abs(z - g.riverZ) < RIVER_WIDTH

\* first pass: heightMap[x][z] of the chunk at pos, in units; x, z local
HeightMap(s, pos, g, x, z) ==
  LET worldX == pos[1] * CHUNK_SIZE + x
      worldZ == pos[2] * CHUNK_SIZE + z
      h0 == getTerrainHeight(s, worldX, worldZ) * HU + MountainBonus(s, worldX, worldZ)
      h1 == IF InRiver(g, x, z)
            THEN Max((WATER_LEVEL - RIVER_DEPTH) * HU, h0 - RIVER_DROP * HU)
            ELSE h0
      h2 == IF InLake(g, x, z)
            THEN Max((WATER_LEVEL - RIVER_DEPTH) * HU, h1 - LakeDrop(g, x, z))
            ELSE h1
  IN Min(h2, MAX_HEIGHT * HU)

\* chunk.highestBlock = Math.max(chunk.highestBlock, height) over all columns
HighestBlock(s, pos, g, start) ==
  LET hs == {start} \cup {HeightMap(s, pos, g, x, z) : x \in 0..(CHUNK_SIZE - 1), z \in 0..(CHUNK_SIZE - 1)}
  IN CHOOSE h \in hs : \A k \in hs : k <= h

\* the block type chosen for height y of a column of height h (both in units)
BlockTypeAt(g, x, yU, z, hU) ==
  LET wl == WATER_LEVEL * HU
      base ==
        IF yU = hU /\ yU > 0
        THEN IF hU >= wl + 15 * HU THEN "STONE"
             ELSE IF hU >= wl + 8 * HU
                  THEN (IF Draw(g.dice, x, yU, z, 20) THEN "STONE" ELSE "GRASS")
             ELSE IF hU > wl THEN "GRASS"
             ELSE IF hU > wl - 2 * HU THEN "SAND"
             ELSE (IF Draw(g.dice, x, yU, z, 70) THEN "SAND" ELSE "DIRT")
        ELSE IF yU >= hU - 3 * HU /\ yU < hU /\ hU > wl THEN "DIRT"
        ELSE IF yU >= hU - 2 * HU /\ yU < hU /\ hU <= wl
             THEN (IF Draw(g.dice, x, yU, z, 80) THEN "SAND" ELSE "DIRT")
        ELSE "STONE"
  IN IF yU <= wl /\ hU < wl /\ yU >= hU THEN "WATER" ELSE base

\* STEP_SIZE is 1, so the fill loops run once with fillX = fillZ = 0
IsEdgeBlock(fillX, fillZ) ==
  fillX = 0 \/ fillZ = 0 \/ fillX = STEP_SIZE - 1 \/ fillZ = STEP_SIZE - 1

\* isTopBlock || isWaterBlock || (FILL_GROUND && (y % 4 === 0 || isEdgeBlock || height - y < 3))
Materialized(blockType, yU, hU) ==
  \/ yU = hU
  \/ blockType = "WATER"
  \/ FILL_GROUND /\ (yU % (4 * HU) = 0 \/ IsEdgeBlock(0, 0) \/ hU - yU < 3 * HU)

\* if (this.blockCreationTracker.count >= MAX_BLOCKS_PER_FRAME) continue;
BudgetLeft(m) == m.count < MAX_BLOCKS_PER_FRAME

\* for (y = minDepth; y <= height; y++): once the budget is used up every
\* further iteration of this loop is skipped
RECURSIVE FillColumn(_, _, _, _, _, _, _)
FillColumn(m, key, g, worldX, worldZ, yU, hU) ==
  IF yU > hU THEN m
  ELSE IF ~BudgetLeft(m) THEN m
  ELSE LET blockType == BlockTypeAt(g, worldX, yU, worldZ, hU)
           m1 == IF Materialized(blockType, yU, hU)
                 THEN createCounted(m, key, worldX, yU, worldZ, blockType)
                 ELSE m
       IN FillColumn(m1, key, g, worldX, worldZ, yU + HU, hU)

\* Floor at y=0 to prevent falling through the world: if (height < 1)
FloorBlock(m, key, worldX, worldZ, hU) ==
  IF hU < HU THEN createCounted(m, key, worldX, 0, worldZ, "STONE") ELSE m

\* the height of column idx = x * 16 + z of the chunk at pos
ColumnHeight(s, pos, g, idx) == HeightMap(s, pos, g, idx \div CHUNK_SIZE, idx % CHUNK_SIZE)

\* the columns of height < 1, in loop order: the only ones that get the
\* y = 0 floor block
LowColumns(s, pos, g) ==
  LET all == [i \in 1..(CHUNK_SIZE * CHUNK_SIZE) |-> i - 1]
      low(c) == ColumnHeight(s, pos, g, c) < HU
  IN SelectSeq(all, low)

\* once the budget is used up, the columns lo..hi still to visit get
\* nothing but their floor block
RECURSIVE FloorRemaining(_, _, _, _)
FloorRemaining(m, key, cols, i) ==
  IF i > Len(cols) THEN m
  ELSE LET pos == m.chunks[key].position
           worldX == pos[1] * CHUNK_SIZE + (cols[i] \div CHUNK_SIZE)
           worldZ == pos[2] * CHUNK_SIZE + (cols[i] % CHUNK_SIZE)
       IN FloorRemaining(createCounted(m, key, worldX, 0, worldZ, "STONE"), key, cols, i + 1)

\* one column of the second pass: the y loop, then the floor block
FillOne(m, key, s, g, idx) ==
  LET x == idx \div CHUNK_SIZE
      z == idx % CHUNK_SIZE
      pos == m.chunks[key].position
      worldX == pos[1] * CHUNK_SIZE + x
      worldZ == pos[2] * CHUNK_SIZE + z
      hU == HeightMap(s, pos, g, x, z)
      minDepth == IF FILL_GROUND THEN Max(0, hU - FILL_DEPTH * HU)
                  ELSE Max(0, hU - 3 * HU)
      m1 == FillColumn(m, key, g, worldX, worldZ, minDepth, hU)
  IN FloorBlock(m1, key, worldX, worldZ, hU)

\* second pass over the columns lo..hi (idx = x * 16 + z) in loop order.
\* The range is halved so that the evaluation stays shallow; the columns
\* are visited left to right exactly as by the nested for loops.
RECURSIVE FillColumns(_, _, _, _, _, _, _)
FillColumns(m, key, s, g, low, lo, hi) ==
  IF lo > hi THEN m
  ELSE IF ~BudgetLeft(m)
  THEN LET inRange(c) == lo <= c /\ c <= hi
       IN FloorRemaining(m, key, SelectSeq(low, inRange), 1)
  ELSE IF lo = hi THEN FillOne(m, key, s, g, lo)
  ELSE LET mid == (lo + hi) \div 2
       IN FillColumns(FillColumns(m, key, s, g, low, lo, mid), key, s, g, low, mid + 1, hi)

\* variant: a tree starts on any column
TreeGroundAnywhere(m, key, s, g, t) == TRUE

\* a tree starts only on a stored GRASS surface block above WATER_LEVEL
TreeGround(m, key, s, g, t) ==
  LET pos == m.chunks[key].position
      groundHeight == HeightMap(s, pos, g, t.x, t.z)
      surfaceBlockKey == getBlockKey(pos[1] * CHUNK_SIZE + t.x, groundHeight,
                                     pos[2] * CHUNK_SIZE + t.z)
      blocks == m.chunks[key].blocks
  IN /\ surfaceBlockKey \in DOMAIN blocks
     /\ blocks[surfaceBlockKey].type = "GRASS"
     /\ groundHeight > WATER_LEVEL * HU

RECURSIVE PlaceTrees(_, _, _, _, _)
PlaceTrees(m, key, s, g, i) ==
  IF i > Len(g.trees) THEN m
  ELSE LET t == g.trees[i]
           pos == m.chunks[key].position
           treeX == pos[1] * CHUNK_SIZE + t.x
           treeZ == pos[2] * CHUNK_SIZE + t.z
           groundHeight == HeightMap(s, pos, g, t.x, t.z)
       IN IF TreeGround(m, key, s, g, t)
          THEN PlaceTrees(createTree(m, key, treeX, groundHeight + HU, treeZ, TREE_TYPES[t.type]),
                          key, s, g, i + 1)
          ELSE PlaceTrees(m, key, s, g, i + 1)

\* camera.position.set(0, 20, 5)
SpawnPosition == [x |-> 0, y |-> 20, z |-> 5]

\* the positions the player is seen at by update: the spawn, another
\* position in the spawn's chunk, one two chunks further along x
PlayerPositions ==
  { SpawnPosition, [x |-> 0, y |-> 16, z |-> 0], [x |-> 40, y |-> 16, z |-> 0] }

\* the chunk positions that can become resident: the squares around the
\* player positions, and the fallback chunk (0, 0)
ChunkRange ==
  {<< 0, 0 >>} \cup
  UNION {{<< (p.x \div CHUNK_SIZE) + dx, (p.z \div CHUNK_SIZE) + dz >> :
            dx \in (-RENDER_DISTANCE)..RENDER_DISTANCE,
            dz \in (-RENDER_DISTANCE)..RENDER_DISTANCE} : p \in PlayerPositions}

\* what the first pass yields for a new chunk, computed once per seed,
\* tape entry and chunk position
FirstPass ==
  [s \in Seeds, gi \in 1..Len(RandomTape), pos \in ChunkRange |->
     [highestBlock |-> HighestBlock(s, pos, RandomTape[gi], 0),
      low |-> LowColumns(s, pos, RandomTape[gi])]]

generateTerrain(m, key) ==
  LET chunk == m.chunks[key]
      s == m.seed
      g == RandomTape[m.rng]
      first == FirstPass[s, m.rng, chunk.position]
      m0 == [m EXCEPT !.rng = (m.rng % Len(RandomTape)) + 1,
                      !.chunks[key].highestBlock = Max(chunk.highestBlock, first.highestBlock)]
      m1 == FillColumns(m0, key, s, g, first.low, 0, CHUNK_SIZE * CHUNK_SIZE - 1)
      m2 == PlaceTrees(m1, key, s, g, 1)
  IN IF chunk.isGenerated THEN m
     ELSE [m2 EXCEPT !.chunks[key].isGenerated = TRUE]

----------------------------------------------------------------------------
(* ChunkManager: chunk creation, visibility, eviction                      *)

NewChunk(chunkX, chunkZ, priority) ==
  [position |-> << chunkX, chunkZ >>,
   blocks |-> << >>,
   isGenerated |-> FALSE,
   isVisible |-> TRUE,
   mesh |-> [visible |-> TRUE, children |-> {}],
   blockCount |-> 0,
   highestBlock |-> 0,
   priority |-> priority]

\* the ground plane the catch block of getOrCreateChunk puts into the
\* default chunk's group
GroundMesh(chunkX, chunkZ) ==
  [slot |-> -1,
   at |-> << chunkX * CHUNK_SIZE + CHUNK_SIZE \div 2, 0, chunkZ * CHUNK_SIZE + CHUNK_SIZE \div 2 >>,
   material |-> "ground"]

\* catch block of getOrCreateChunk: 'Return a default empty chunk'
DefaultChunk(chunkX, chunkZ, priority) ==
  [position |-> << chunkX, chunkZ >>,
   blocks |-> << >>,
   isGenerated |-> TRUE,
   isVisible |-> TRUE,
   mesh |-> [visible |-> TRUE, children |-> {GroundMesh(chunkX, chunkZ)}],
   blockCount |-> 0,
   highestBlock |-> 0,
   priority |-> priority]

\* variant: the catch block hands the exception on to the caller
CatchCreateRethrows(m, chunkX, chunkZ, priority) == [m EXCEPT !.thrown = TRUE]

\* what the catch block of getOrCreateChunk leaves when creating the chunk
\* raised an exception (taken to be raised by the first block's render
\* objects, after the draws for river and lake): the default chunk replaces
\* the one put into the map
CatchCreate(m, chunkX, chunkZ, priority) ==
  [m EXCEPT !.rng = (m.rng % Len(RandomTape)) + 1,
            !.chunks = (<< chunkX, chunkZ >> :> DefaultChunk(chunkX, chunkZ, priority)) @@ @,
            !.scene = @ \cup {<< chunkX, chunkZ >>}]

\* m.failing: the chunk keys whose creation raises an exception in this call
getOrCreateChunk(m, chunkX, chunkZ, priority) ==
  LET chunkKey == << chunkX, chunkZ >>
      m1 == [m EXCEPT !.chunks = @ @@ (chunkKey :> NewChunk(chunkX, chunkZ, priority))]
      m2 == generateTerrain(m1, chunkKey)
  IN IF chunkKey \in DOMAIN m.chunks THEN m
     ELSE IF chunkKey \in m.failing THEN CatchCreate(m, chunkX, chunkZ, priority)
     ELSE [m2 EXCEPT !.scene = @ \cup {chunkKey}]

\* variant: the number of resident chunks flagged visible
getChunkCountResident(m) ==
  Cardinality({k \in DOMAIN m.chunks : m.chunks[k].isVisible})

\* return this.visibleChunks.size
getChunkCount(m) == Cardinality(m.visibleChunks)

\* variant: the chunks that left the visible set stay in it
updateChunkVisibilityKeepsOld(m, newVisibleChunks) ==
  [m EXCEPT
     !.chunks = [k \in DOMAIN @ |->
                   IF k \in newVisibleChunks
                   THEN [@[k] EXCEPT !.isVisible = TRUE, !.mesh.visible = TRUE]
                   ELSE @[k]],
     !.visibleChunks = @ \cup newVisibleChunks]

\* variant: the chunks that left the visible set are dropped from the map
updateChunkVisibilityDropsHidden(m, newVisibleChunks) ==
  [m EXCEPT
     !.chunks = [k \in DOMAIN @ \ (m.visibleChunks \ newVisibleChunks) |->
                   IF k \in newVisibleChunks
                   THEN [@[k] EXCEPT !.isVisible = TRUE, !.mesh.visible = TRUE]
                   ELSE @[k]],
     !.visibleChunks = newVisibleChunks]

\* variant: the chunks that left the visible set keep their flag
updateChunkVisibilityShowsOnly(m, newVisibleChunks) ==
  [m EXCEPT
     !.chunks = [k \in DOMAIN @ |->
                   IF k \in newVisibleChunks
                   THEN [@[k] EXCEPT !.isVisible = TRUE, !.mesh.visible = TRUE]
                   ELSE @[k]],
     !.visibleChunks = newVisibleChunks]

\* hide what left the visible set, show what is in it, publish the set
updateChunkVisibility(m, newVisibleChunks) ==
  [m EXCEPT
     !.chunks = [k \in DOMAIN @ |->
                   IF k \in newVisibleChunks
                   THEN [@[k] EXCEPT !.isVisible = TRUE, !.mesh.visible = TRUE]
                   ELSE IF k \in m.visibleChunks
                        THEN [@[k] EXCEPT !.isVisible = FALSE, !.mesh.visible = FALSE]
                        ELSE @[k]],
     !.visibleChunks = newVisibleChunks]

\* distX > RENDER_DISTANCE + 1 || distZ > RENDER_DISTANCE + 1 || !chunk.isVisible
Unloadable(chunk, playerChunkX, playerChunkZ) ==
  \/ Abs(chunk.position[1] - playerChunkX) > RENDER_DISTANCE + 1
  \/ Abs(chunk.position[2] - playerChunkZ) > RENDER_DISTANCE + 1
  \/ ~chunk.isVisible

InstancedBlocks(chunk) ==
  {chunk.blocks[b] : b \in {bk \in DOMAIN chunk.blocks : chunk.blocks[bk].isInstanced}}

\* the instance slots held by the blocks of a set of chunks
SlotsOf(m, keys) ==
  UNION {{<< blk.type, blk.mesh.slot >> : blk \in InstancedBlocks(m.chunks[k])} : k \in keys}

\* variant: the chunks are detached from the scene but stay in the maps
unloadDistantChunksDetachOnly(m, playerPosition) ==
  LET playerChunkX == playerPosition.x \div CHUNK_SIZE
      playerChunkZ == playerPosition.z \div CHUNK_SIZE
      gone == {k \in DOMAIN m.chunks : Unloadable(m.chunks[k], playerChunkX, playerChunkZ)}
  IN [m EXCEPT !.scene = @ \ gone]

\* variant: only the distance decides, hidden chunks nearby stay
unloadDistantChunksByDistance(m, playerPosition) ==
  LET playerChunkX == playerPosition.x \div CHUNK_SIZE
      playerChunkZ == playerPosition.z \div CHUNK_SIZE
      gone == {k \in DOMAIN m.chunks :
                 \/ Abs(m.chunks[k].position[1] - playerChunkX) > RENDER_DISTANCE + 1
                 \/ Abs(m.chunks[k].position[2] - playerChunkZ) > RENDER_DISTANCE + 1}
      slots == SlotsOf(m, gone)
  IN [m EXCEPT
        !.scene = @ \ gone,
        !.instanceMatrix = [sl \in DOMAIN @ |-> IF sl \in slots THEN ZeroScale ELSE @[sl]],
        !.chunks = [k \in DOMAIN @ \ gone |-> @[k]],
        !.visibleChunks = @ \ gone]

unloadDistantChunks(m, playerPosition) ==
  LET playerChunkX == playerPosition.x \div CHUNK_SIZE
      playerChunkZ == playerPosition.z \div CHUNK_SIZE
      gone == {k \in DOMAIN m.chunks : Unloadable(m.chunks[k], playerChunkX, playerChunkZ)}
      slots == SlotsOf(m, gone)
  IN [m EXCEPT
        !.scene = @ \ gone,
        !.instanceMatrix = [sl \in DOMAIN @ |-> IF sl \in slots THEN ZeroScale ELSE @[sl]],
        !.chunks = [k \in DOMAIN @ \ gone |-> @[k]],
        !.visibleChunks = @ \ gone]

----------------------------------------------------------------------------
(* ChunkManager.processUpdateQueue                                         *)

\* Array.prototype.sort is stable: an element comes after the ones that
\* are less than it and after the equal ones that stood before it;
\* keys[i] is what the comparator orders seq[i] by
StableSort(seq, keys) ==
  LET n == Len(seq)
      before(j, i) == keys[j] < keys[i] \/ (keys[j] = keys[i] /\ j < i)
      ranked == {<< Cardinality({j \in 1..n : before(j, i)}) + 1, i >> : i \in 1..n}
  IN SubSeq([k \in 1..n |-> seq[CHOOSE i \in 1..n : << k, i >> \in ranked]], 1, n)

\* (a, b) => b.priority - a.priority: the sort keys of a queue
ByPriority(q) == [i \in 1..Len(q) |-> -q[i].priority]

\* (a, b) => a.distance - b.distance; distances are compared by their squares
ByDistance(data) == [i \in 1..Len(data) |-> data[i].d2]

\* variant: nothing is scheduled once the frame's budget is used up
ScheduleTimerOnly(m) ==
  IF Len(m.updateQueue) > 0 /\ m.count < MAX_BLOCKS_PER_FRAME
  THEN [m EXCEPT !.timers = @ + 1]
  ELSE IF Len(m.updateQueue) > 0
       THEN m
       ELSE [m EXCEPT !.isUpdating = FALSE]

\* what processBatch schedules after handling one entry
Schedule(m) ==
  IF Len(m.updateQueue) > 0 /\ m.count < MAX_BLOCKS_PER_FRAME
  THEN [m EXCEPT !.timers = @ + 1]
  ELSE IF Len(m.updateQueue) > 0
       THEN [m EXCEPT !.frames = @ + 1]
       ELSE [m EXCEPT !.isUpdating = FALSE]

\* if (now - lastReset > 16) { count = 0; lastReset = now }
ResetWindow(m) ==
  IF m.elapsed THEN [m EXCEPT !.count = 0, !.elapsed = FALSE, !.batchMade = 0] ELSE m

\* the entry is generated only if it is not resident and still wanted
PopEntry(m) ==
  IF Len(m.updateQueue) > 0
  THEN LET key == Head(m.updateQueue).key
       IN IF key \notin DOMAIN m.chunks /\ key \in m.visibleChunks
          THEN getOrCreateChunk([m EXCEPT !.updateQueue = Tail(@)], key[1], key[2], 0)
          ELSE [m EXCEPT !.updateQueue = Tail(@)]
  ELSE m

\* the blocks stored by the callbacks since the counter was last reset
CountBatch(m, madeBefore) == [m EXCEPT !.batchMade = @ + (m.made - madeBefore)]

processBatch(m) == Schedule(CountBatch(PopEntry(ResetWindow(m)), m.made))

processUpdateQueue(m) ==
  IF Len(m.updateQueue) = 0
  THEN [m EXCEPT !.isUpdating = FALSE]
  ELSE processBatch([m EXCEPT !.isUpdating = TRUE,
                              !.updateQueue = StableSort(@, ByPriority(@))])

----------------------------------------------------------------------------
(* ChunkManager.initChunks, update                                         *)

NoChunk == << >>

\* variant: the chunk is taken from x and the height y
PlayerChunkFromHeight(playerPosition) ==
  << playerPosition.x \div CHUNK_SIZE, playerPosition.y \div CHUNK_SIZE >>

PlayerChunk(playerPosition) ==
  << playerPosition.x \div CHUNK_SIZE, playerPosition.z \div CHUNK_SIZE >>

\* variant: the guard never holds
SamePlayerChunkNever(last, playerChunk) == FALSE

\* Skip if player hasn't moved to a new chunk
SamePlayerChunk(last, playerChunk) ==
  last # NoChunk /\ last[1] = playerChunk[1] /\ last[2] = playerChunk[2]

\* 1000 - Math.floor(distance * 100), distance = Math.sqrt(d2)
Priority(d2) == PRIORITY_BASE - Isqrt(d2 * 10000)

\* the square of side 2 * RENDER_DISTANCE + 1 around the player chunk, in
\* loop order (x outer, z inner)
ChunkDistances(playerChunk) ==
  LET w == 2 * RENDER_DISTANCE + 1
      entry(i) ==
        LET dx == ((i - 1) \div w) - RENDER_DISTANCE
            dz == ((i - 1) % w) - RENDER_DISTANCE
        IN [key |-> << playerChunk[1] + dx, playerChunk[2] + dz >>,
            d2 |-> dx * dx + dz * dz,
            priority |-> Priority(dx * dx + dz * dz)]
  IN SubSeq([i \in 1..(w * w) |-> entry(i)], 1, w * w)

\* chunkDistances.sort(by distance).slice(0, MAX_VISIBLE_CHUNKS)
VisibleChunkData(playerChunk) ==
  LET sorted == StableSort(ChunkDistances(playerChunk),
                           ByDistance(ChunkDistances(playerChunk)))
  IN SubSeq(sorted, 1, Min(MAX_VISIBLE_CHUNKS, Len(sorted)))

Revisit(m, key, priority) ==
  [m EXCEPT !.chunks[key].priority = priority, !.chunks[key].isVisible = TRUE]

\* the closest chunks are created in the call itself
RECURSIVE CreateClosest(_, _, _)
CreateClosest(m, data, i) ==
  IF i > Min(SYNC_CHUNKS, Len(data)) THEN m
  ELSE LET key == data[i].key
       IN IF key \notin DOMAIN m.chunks
          THEN CreateClosest(getOrCreateChunk(m, key[1], key[2], data[i].priority), data, i + 1)
          ELSE CreateClosest(Revisit(m, key, data[i].priority), data, i + 1)

\* variant: the remaining ones are put at the front of the queue
RECURSIVE QueueRemainingAtFront(_, _, _)
QueueRemainingAtFront(m, data, i) ==
  IF i > Len(data) THEN m
  ELSE LET key == data[i].key
       IN IF key \in DOMAIN m.chunks
          THEN QueueRemainingAtFront(Revisit(m, key, data[i].priority), data, i + 1)
          ELSE QueueRemainingAtFront(
                 [m EXCEPT !.updateQueue =
                             << [key |-> key, priority |-> data[i].priority] >> \o @],
                 data, i + 1)

\* the remaining ones are queued unless they are resident
RECURSIVE QueueRemaining(_, _, _)
QueueRemaining(m, data, i) ==
  IF i > Len(data) THEN m
  ELSE LET key == data[i].key
       IN IF key \in DOMAIN m.chunks
          THEN QueueRemaining(Revisit(m, key, data[i].priority), data, i + 1)
          ELSE QueueRemaining([m EXCEPT !.updateQueue =
                                          Append(@, [key |-> key, priority |-> data[i].priority])],
                              data, i + 1)

\* variant: the update queue is kept
StartUpdateKeepsQueue(m, playerChunk) ==
  [m EXCEPT !.lastPlayerChunk = playerChunk]

\* this.lastPlayerChunk = playerChunk; this.updateQueue = []
StartUpdate(m, playerChunk) ==
  [m EXCEPT !.lastPlayerChunk = playerChunk, !.updateQueue = << >>]

\* the visible chunks are created or queued, then the visibility is updated
LoadVisible(m, data) ==
  updateChunkVisibility(QueueRemaining(CreateClosest(m, data, 1), data, SYNC_CHUNKS + 1),
                        {data[i].key : i \in 1..Len(data)})

\* variant: the queue is left for a later call to start
StartQueueSkipped(m) == m

\* variant: processUpdateQueue is called whether or not a chain is running
StartQueueAlways(m) == processUpdateQueue(m)

\* if (!this.isUpdating) this.processUpdateQueue()
StartQueue(m) == IF ~m.isUpdating THEN processUpdateQueue(m) ELSE m

\* if (Math.random() < 0.02) this.unloadDistantChunks(playerPosition)
MaybeUnload(m, playerPosition, doUnload) ==
  IF doUnload THEN unloadDistantChunks(m, playerPosition) ELSE m

\* a position argument that is null or undefined: reading its x raises a
\* TypeError in the first statement of initChunks' try block
NoPosition == [undefined |-> TRUE]

\* catch block of initChunks: 'Create at least one chunk to ensure
\* something is visible'
CatchInit(m) ==
  IF DOMAIN m.chunks = {} THEN getOrCreateChunk(m, 0, 0, FALLBACK_PRIORITY) ELSE m

\* doUnload is the outcome of Math.random() < 0.02
initChunks(m, playerPosition, doUnload) ==
  IF playerPosition = NoPosition THEN CatchInit(m)
  ELSE IF SamePlayerChunk(m.lastPlayerChunk, PlayerChunk(playerPosition)) THEN m
  ELSE MaybeUnload(StartQueue(LoadVisible(StartUpdate(m, PlayerChunk(playerPosition)),
                                          VisibleChunkData(PlayerChunk(playerPosition)))),
                   playerPosition, doUnload)

\* variant: the draw is ignored and initChunks is never called
updateNever(m, playerPosition, doInit, doUnload) == m

\* doInit is the outcome of Math.random() < 0.03
update(m, playerPosition, doInit, doUnload) ==
  IF doInit THEN initChunks(m, playerPosition, doUnload) ELSE m

----------------------------------------------------------------------------
(* ChunkManager.placeBlock, removeBlock, getBlock                          *)

\* variant: the block map is not consulted before createBlock
placeBlockUnchecked(m, x, yU, z, type) ==
  LET chunkKey == getChunkKey(x, z)
  IN IF chunkKey \notin DOMAIN m.chunks THEN [world |-> m, ret |-> FALSE]
     ELSE [world |-> createBlock(m, chunkKey, x, yU, z, type), ret |-> TRUE]

\* the world after the call and the value returned
placeBlock(m, x, yU, z, type) ==
  LET chunkKey == getChunkKey(x, z)
      blockKey == getBlockKey(x, yU, z)
  IN IF chunkKey \notin DOMAIN m.chunks THEN [world |-> m, ret |-> FALSE]
     ELSE IF BlockExists(m.chunks[chunkKey], blockKey) THEN [world |-> m, ret |-> FALSE]
     ELSE [world |-> createBlock(m, chunkKey, x, yU, z, type), ret |-> TRUE]

Null == "null"

\* variant: a missing block is not noticed; the count is lowered anyway
removeBlockUnchecked(m, x, yU, z) ==
  LET chunkKey == getChunkKey(x, z)
      blockKey == getBlockKey(x, yU, z)
  IN IF chunkKey \notin DOMAIN m.chunks THEN [world |-> m, ret |-> Null]
     ELSE IF blockKey \notin DOMAIN m.chunks[chunkKey].blocks
     THEN [world |-> [m EXCEPT !.chunks[chunkKey].blockCount = @ - 1], ret |-> Null]
     ELSE [world |-> [m EXCEPT
                        !.chunks[chunkKey].mesh.children =
                           @ \ {m.chunks[chunkKey].blocks[blockKey].mesh},
                        !.chunks[chunkKey].blocks = [b \in DOMAIN @ \ {blockKey} |-> @[b]],
                        !.chunks[chunkKey].blockCount = @ - 1],
           ret |-> m.chunks[chunkKey].blocks[blockKey].type]

\* variant: removing a block of an instanced type hands a slot back
removeBlockReclaims(m, x, yU, z) ==
  LET chunkKey == getChunkKey(x, z)
      blockKey == getBlockKey(x, yU, z)
  IN IF chunkKey \notin DOMAIN m.chunks THEN [world |-> m, ret |-> Null]
     ELSE IF blockKey \notin DOMAIN m.chunks[chunkKey].blocks THEN [world |-> m, ret |-> Null]
     ELSE [world |-> [m EXCEPT
                        !.instanceCount =
                           [t \in DOMAIN @ |->
                              IF t = m.chunks[chunkKey].blocks[blockKey].type
                              THEN @[t] - 1 ELSE @[t]],
                        !.chunks[chunkKey].mesh.children =
                           @ \ {m.chunks[chunkKey].blocks[blockKey].mesh},
                        !.chunks[chunkKey].blocks = [b \in DOMAIN @ \ {blockKey} |-> @[b]],
                        !.chunks[chunkKey].blockCount = @ - 1],
           ret |-> m.chunks[chunkKey].blocks[blockKey].type]

removeBlock(m, x, yU, z) ==
  LET chunkKey == getChunkKey(x, z)
      blockKey == getBlockKey(x, yU, z)
      chunk == m.chunks[chunkKey]
      block == chunk.blocks[blockKey]
      m1 == [m EXCEPT
               !.instanceMatrix =
                  IF block.isInstanced /\ block.mesh.slot >= 0
                  THEN [sl \in DOMAIN @ \cup {<< block.type, block.mesh.slot >>} |->
                          IF sl = << block.type, block.mesh.slot >> THEN ZeroScale ELSE @[sl]]
                  ELSE @,
               !.chunks[chunkKey].mesh.children =
                  IF ~(block.isInstanced /\ block.mesh.slot >= 0) /\ block.mesh.slot < 0
                  THEN @ \ {block.mesh}
                  ELSE @,
               !.chunks[chunkKey].blocks = [b \in DOMAIN @ \ {blockKey} |-> @[b]],
               !.chunks[chunkKey].blockCount = @ - 1]
  IN IF chunkKey \notin DOMAIN m.chunks THEN [world |-> m, ret |-> Null]
     ELSE IF blockKey \notin DOMAIN chunk.blocks THEN [world |-> m, ret |-> Null]
     ELSE [world |-> m1, ret |-> block.type]

\* << >> stands for null, << block >> for a block
getBlock(m, x, yU, z) ==
  LET chunkKey == getChunkKey(x, z)
      blockKey == getBlockKey(x, yU, z)
  IN IF chunkKey \notin DOMAIN m.chunks THEN << >>
     ELSE IF blockKey \notin DOMAIN m.chunks[chunkKey].blocks THEN << >>
     ELSE << m.chunks[chunkKey].blocks[blockKey] >>

\* what the raycaster can report for an instanced mesh: nothing, or one of
\* its first instancedMesh.count instances
InstanceHits ==
  {<< >>} \cup {<< t, i >> : t \in INSTANCED_BLOCK_TYPES, i \in 0..(INSTANCED_MESH_COUNT - 1)}

\* the visible blocks of the instanced path that hold the reported instance
InstanceMatches(m, instanceHit) ==
  UNION {{m.chunks[k].blocks[b] :
            b \in {bk \in DOMAIN m.chunks[k].blocks :
                     /\ m.chunks[k].blocks[bk].isInstanced
                     /\ m.chunks[k].blocks[bk].mesh.slot = instanceHit[2]
                     /\ m.chunks[k].blocks[bk].type = instanceHit[1]}} :
         k \in {kk \in DOMAIN m.chunks : m.chunks[kk].isVisible}}

\* variant: the meshes of every resident chunk are collected
castRayAllResident(m, origin, target, instanceHit) ==
  IF getChunkKey(origin.x, origin.z) \notin DOMAIN m.chunks THEN << >>
  ELSE IF \E k \in DOMAIN m.chunks :
             /\ target \in DOMAIN m.chunks[k].blocks
             /\ ~m.chunks[k].blocks[target].isInstanced
       THEN << m.chunks[CHOOSE k \in DOMAIN m.chunks :
                          /\ target \in DOMAIN m.chunks[k].blocks
                          /\ ~m.chunks[k].blocks[target].isInstanced].blocks[target] >>
       ELSE << >>

\* variant: the chunk of the origin is not looked up
castRayFromAnywhere(m, origin, target, instanceHit) ==
  IF \E k \in {kk \in m.visibleChunks \cap DOMAIN m.chunks : m.chunks[kk].isVisible} :
        /\ target \in DOMAIN m.chunks[k].blocks
        /\ ~m.chunks[k].blocks[target].isInstanced
  THEN << m.chunks[CHOOSE k \in {kk \in m.visibleChunks \cap DOMAIN m.chunks :
                                   m.chunks[kk].isVisible} :
                     /\ target \in DOMAIN m.chunks[k].blocks
                     /\ ~m.chunks[k].blocks[target].isInstanced].blocks[target] >>
  ELSE IF instanceHit # << >> /\ InstanceMatches(m, instanceHit) # {}
       THEN << CHOOSE blk \in InstanceMatches(m, instanceHit) : TRUE >>
       ELSE << >>

\* the chunks whose individually rendered blocks castRay collects
RayChunks(m) == {k \in m.visibleChunks \cap DOMAIN m.chunks : m.chunks[k].isVisible}

\* target is the key of the block whose mesh the ray meets first if that
\* mesh is among the collected ones, instanceHit what the raycaster reports
\* for the instanced meshes; << >> stands for null, << block >> for a hit
castRay(m, origin, target, instanceHit) ==
  IF getChunkKey(origin.x, origin.z) \notin DOMAIN m.chunks THEN << >>
  ELSE IF \E k \in RayChunks(m) :
             /\ target \in DOMAIN m.chunks[k].blocks
             /\ ~m.chunks[k].blocks[target].isInstanced
       THEN << m.chunks[CHOOSE k \in RayChunks(m) :
                          /\ target \in DOMAIN m.chunks[k].blocks
                          /\ ~m.chunks[k].blocks[target].isInstanced].blocks[target] >>
       ELSE IF instanceHit # << >> /\ InstanceMatches(m, instanceHit) # {}
            THEN << CHOOSE blk \in InstanceMatches(m, instanceHit) : TRUE >>
            ELSE << >>

----------------------------------------------------------------------------
(* State                                                                   *)

VARIABLES
  seed,            \* the NoiseGenerator's seed, fixed at construction
  rng,             \* state of Math.random: position on RandomTape
  chunks,          \* Map<string, Chunk>, keyed by << chunkX, chunkZ >>
  visibleChunks,   \* Set<string>
  updateQueue,     \* Array<{key, priority}>
  isUpdating,
  lastPlayerChunk, \* NoChunk or << x, z >>
  count,           \* blockCreationTracker.count
  elapsed,         \* performance.now() - blockCreationTracker.lastReset > 16
  instanceCount,   \* Map<string, number>
  instanceMatrix,  \* the transforms written into instance slots
  scene,           \* the chunk groups attached to the THREE.Scene
  timers,          \* pending setTimeout(processBatch, 0) callbacks
  frames,          \* pending requestAnimationFrame(processBatch) callbacks
  batchMade,       \* blocks stored by processBatch since the counter was last reset
  inventory,       \* GameView's inventory state
  call,            \* the host's last call and what it returned
  calls,           \* number of host calls so far
  ticks,           \* number of times the 16 ms window ran out so far
  generators,      \* the NoiseGenerators constructed side by side, << >> before
  noiseLog,        \* the noise calls made on them, with what they returned
  terrain          \* the last getTerrainHeight call on given noise values

managerVars == << chunks, visibleChunks, updateQueue, isUpdating, lastPlayerChunk, count,
                  instanceCount, instanceMatrix, scene, timers, frames >>

vars == << seed, rng, chunks, visibleChunks, updateQueue, isUpdating, lastPlayerChunk,
           count, elapsed, instanceCount, instanceMatrix, scene, timers, frames,
           batchMade, inventory, call, calls, ticks, generators, noiseLog, terrain >>

noiseVars == << generators, noiseLog, terrain >>

\* the manager as one record, for the operators above; made counts the
\* blocks stored during the current handler, failing holds the chunk keys
\* whose creation raises an exception during it, thrown tells whether the
\* handler ended by an exception
World ==
  [seed |-> seed, rng |-> rng, chunks |-> chunks, visibleChunks |-> visibleChunks,
   updateQueue |-> updateQueue, isUpdating |-> isUpdating,
   lastPlayerChunk |-> lastPlayerChunk, count |-> count, elapsed |-> elapsed,
   instanceCount |-> instanceCount, instanceMatrix |-> instanceMatrix, scene |-> scene,
   timers |-> timers, frames |-> frames, batchMade |-> batchMade, made |-> 0,
   failing |-> {}, thrown |-> FALSE]

Commit(m) ==
  /\ seed' = m.seed
  /\ rng' = m.rng
  /\ chunks' = m.chunks
  /\ visibleChunks' = m.visibleChunks
  /\ updateQueue' = m.updateQueue
  /\ isUpdating' = m.isUpdating
  /\ lastPlayerChunk' = m.lastPlayerChunk
  /\ count' = m.count
  /\ elapsed' = m.elapsed
  /\ instanceCount' = m.instanceCount
  /\ instanceMatrix' = m.instanceMatrix
  /\ scene' = m.scene
  /\ timers' = m.timers
  /\ frames' = m.frames
  /\ batchMade' = m.batchMade
  /\ UNCHANGED noiseVars

\* where blocks are placed or removed: inside the first generated columns,
\* high above them, and in a chunk that is never resident
EditPositions ==
  { << 0, 1 * HU, 0 >>, << 0, 30 * HU, 0 >>, << 100, 1 * HU, 0 >> }

\* the last handler that ran, with its arguments and what it returned;
\* doInit: update's draw called initChunks, ran: initChunks went past its
\* guard, doUnload: unloadDistantChunks ran, evicted: the chunk keys it
\* deleted from the chunk map, failing: the chunk keys whose creation raised
\* an exception during the call, position: a position was passed, freed:
\* the deleted chunks that held blocks of the instanced types, hit: what
\* castRay returned
NoCall == [op |-> "none", x |-> 0, y |-> 0, z |-> 0, type |-> "", ret |-> "",
           doInit |-> FALSE, ran |-> FALSE, doUnload |-> FALSE, evicted |-> {},
           failing |-> {}, position |-> TRUE, freed |-> {}, hit |-> << >>]

\* getTerrainHeight has not been called
NoTerrain == [biomeValue |-> -1, baseHeight |-> 0, persistence |-> 0, octaves |-> 0,
              scale |-> 0, mountainHeight |-> 0, ret |-> 0]

\* constructor and GameView's useState
Init ==
  /\ seed \in Seeds
  /\ rng = 1
  /\ chunks = << >>
  /\ visibleChunks = {}
  /\ updateQueue = << >>
  /\ isUpdating = FALSE
  /\ lastPlayerChunk = NoChunk
  /\ count = 0
  /\ elapsed = TRUE
  /\ instanceCount = [t \in INSTANCED_BLOCK_TYPES |-> 0]
  /\ instanceMatrix = << >>
  /\ scene = {}
  /\ timers = 0
  /\ frames = 0
  /\ batchMade = 0
  /\ inventory = [t \in {"DIRT", "GRASS", "STONE", "WOOD", "LEAVES", "GLASS", "SAND"} |->
                    IF t \in {"GLASS", "SAND"} THEN 32 ELSE 64]
  /\ call = NoCall
  /\ calls = 0
  /\ ticks = 0
  /\ generators = << >>
  /\ noiseLog = {}
  /\ terrain = NoTerrain

----------------------------------------------------------------------------
(* Actions                                                                 *)

\* the chunks this step deletes that hold blocks of the instanced types
Freed ==
  {k \in DOMAIN chunks \ DOMAIN chunks' :
     \E b \in DOMAIN chunks[k].blocks : chunks[k].blocks[b].type \in INSTANCED_BLOCK_TYPES}

\* initChunks called now with this position goes past its guard
Entered(p) == ~SamePlayerChunk(lastPlayerChunk, PlayerChunk(p))

\* GameView's scene setup: new ChunkManager(scene), then
\* initChunks(camera.position) with the camera at (0, 20, 5)
InitChunks(doUnload) ==
  /\ calls = 0
  /\ Commit(initChunks(World, SpawnPosition, doUnload))
  /\ call' = [NoCall EXCEPT !.op = "initChunks", !.x = SpawnPosition.x, !.y = SpawnPosition.y,
                            !.z = SpawnPosition.z, !.doInit = TRUE,
                            !.ran = Entered(SpawnPosition),
                            !.doUnload = Entered(SpawnPosition) /\ doUnload,
                            !.evicted = DOMAIN chunks \ DOMAIN chunks',
                            !.freed = Freed]
  /\ calls' = calls + 1
  /\ UNCHANGED << inventory, ticks >>

\* the render loop calls update(playerPosition)
Update(p, doInit, doUnload) ==
  /\ calls > 0
  /\ calls < MaxCalls
  /\ Commit(update(World, p, doInit, doUnload))
  /\ call' = [NoCall EXCEPT !.op = "update", !.x = p.x, !.y = p.y, !.z = p.z,
                            !.doInit = doInit,
                            !.ran = doInit /\ Entered(p),
                            !.doUnload = doInit /\ Entered(p) /\ doUnload,
                            !.evicted = DOMAIN chunks \ DOMAIN chunks',
                            !.freed = Freed]
  /\ calls' = calls + 1
  /\ UNCHANGED << inventory, ticks >>

\* a scheduled processBatch runs (zero-delay timer or animation frame);
\* windowOver: more than 16 ms have passed since the counter was last reset
ProcessBatch(useTimer, windowOver) ==
  /\ IF useTimer THEN timers > 0 ELSE frames > 0
  /\ windowOver => ticks < MaxTicks
  /\ Commit(processBatch(IF useTimer
                         THEN [World EXCEPT !.timers = @ - 1, !.elapsed = @ \/ windowOver]
                         ELSE [World EXCEPT !.frames = @ - 1, !.elapsed = @ \/ windowOver]))
  /\ ticks' = IF windowOver THEN ticks + 1 ELSE ticks
  /\ call' = [NoCall EXCEPT !.op = "processBatch"]
  /\ UNCHANGED << inventory, calls >>

\* castRay returned a block: some visible resident chunk holds one
RayCanHit ==
  \E k \in visibleChunks \cap DOMAIN chunks :
     chunks[k].isVisible /\ chunks[k].blockCount > 0

\* GameView.handleMouseDown, right button: newPos is the hit block's
\* position plus the face normal, selectedType an inventory type in stock
MouseDownPlace(newPos, selectedType) ==
  /\ calls > 0
  /\ calls <= MaxEdits
  /\ RayCanHit
  /\ inventory[selectedType] > 0
  /\ LET r == placeBlock(World, newPos[1], newPos[2], newPos[3], selectedType)
     IN /\ Commit(r.world)
        /\ inventory' = IF r.ret THEN [inventory EXCEPT ![selectedType] = @ - 1]
                         ELSE inventory
        /\ call' = [NoCall EXCEPT !.op = "placeBlock", !.x = newPos[1], !.y = newPos[2],
                                  !.z = newPos[3], !.type = selectedType,
                                  !.ret = IF r.ret THEN "true" ELSE "false"]
  /\ calls' = calls + 1
  /\ UNCHANGED ticks

\* GameView's socket handler, 'block_update': placeBlock or removeBlock
BlockUpdate(pos, blockType) ==
  /\ calls > 0
  /\ calls <= MaxEdits
  /\ IF blockType = Null
     THEN LET r == removeBlock(World, pos[1], pos[2], pos[3])
          IN /\ Commit(r.world)
             /\ call' = [NoCall EXCEPT !.op = "removeBlock", !.x = pos[1], !.y = pos[2],
                                       !.z = pos[3], !.ret = r.ret]
     ELSE LET r == placeBlock(World, pos[1], pos[2], pos[3], blockType)
          IN /\ Commit(r.world)
             /\ call' = [NoCall EXCEPT !.op = "placeBlock", !.x = pos[1], !.y = pos[2],
                                       !.z = pos[3], !.type = blockType,
                                       !.ret = IF r.ret THEN "true" ELSE "false"]
  /\ calls' = calls + 1
  /\ UNCHANGED << inventory, ticks >>

Next ==
  \/ \E doUnload \in BOOLEAN : InitChunks(doUnload)
  \/ \E p \in PlayerPositions, doInit \in BOOLEAN, doUnload \in BOOLEAN :
        Update(p, doInit, doUnload)
  \/ \E useTimer \in BOOLEAN, windowOver \in BOOLEAN : ProcessBatch(useTimer, windowOver)

Spec == Init /\ [][Next]_vars

\* a scheduled callback runs
Callback == \E useTimer \in BOOLEAN, windowOver \in BOOLEAN : ProcessBatch(useTimer, windowOver)

\* the player stays where the scene was set up
DrainNext ==
  \/ \E doUnload \in BOOLEAN : InitChunks(doUnload)
  \/ \E useTimer \in BOOLEAN, windowOver \in BOOLEAN : ProcessBatch(useTimer, windowOver)

DrainSpec == Init /\ [][DrainNext]_vars

\* a callback is pending: ENABLED <<Callback>>_vars, since a pending
\* callback can fire with windowOver = FALSE and firing always consumes it
CallbackPending == timers + frames > 0

\* the browser runs every callback it was handed: WF_vars(Callback), with
\* ENABLED <<Callback>>_vars written as CallbackPending
CallbackFairness == []<>(~CallbackPending) \/ []<><<Callback>>_vars

FairSpec == DrainSpec /\ CallbackFairness

\* the sets of chunks whose creation fails during one call
FailSets ==
  { {}, {<< 0, 0 >>}, {<< 0, 0 >>, << 1, 0 >>, << -1, -1 >>},
    {<< 0, 0 >>, << 1, 0 >>, << -1, 0 >>, << 0, 1 >>, << 0, -1 >>, << -1, -1 >>} }

\* initChunks is called on a manager that has not processed a player chunk
\* yet, while creating some chunks raises exceptions, or with a position
\* that is null; ret tells how the call ended
InitChunksFailing(p, failing, doUnload) ==
  /\ calls < MaxCalls
  /\ lastPlayerChunk = NoChunk
  /\ LET m == initChunks([World EXCEPT !.failing = failing], p, doUnload)
     IN /\ Commit(m)
        /\ call' = [NoCall EXCEPT !.op = "initChunks",
                                  !.x = IF p = NoPosition THEN 0 ELSE p.x,
                                  !.y = IF p = NoPosition THEN 0 ELSE p.y,
                                  !.z = IF p = NoPosition THEN 0 ELSE p.z,
                                  !.position = p # NoPosition,
                                  !.doInit = TRUE,
                                  !.ran = p # NoPosition /\ Entered(p),
                                  !.doUnload = p # NoPosition /\ Entered(p) /\ doUnload,
                                  !.evicted = DOMAIN chunks \ DOMAIN chunks',
                                  !.freed = Freed,
                                  !.failing = failing,
                                  !.ret = IF m.thrown THEN "threw" ELSE "returned"]
  /\ calls' = calls + 1
  /\ UNCHANGED << inventory, ticks >>

FailNext ==
  \/ \E p \in PlayerPositions \cup {NoPosition}, failing \in FailSets, doUnload \in BOOLEAN :
        InitChunksFailing(p, failing, doUnload)
  \/ \E useTimer \in BOOLEAN, windowOver \in BOOLEAN : ProcessBatch(useTimer, windowOver)

FailSpec == Init /\ [][FailNext]_vars

\* the player stands still and edits blocks while the queue drains
EditNext ==
  \/ \E doUnload \in BOOLEAN : InitChunks(doUnload)
  \/ \E useTimer \in BOOLEAN : ProcessBatch(useTimer, FALSE)
  \/ \E pos \in EditPositions, t \in {"DIRT", "GLASS"} : MouseDownPlace(pos, t)
  \/ \E pos \in EditPositions, t \in {"STONE", "AIR", Null} : BlockUpdate(pos, t)

EditSpec == Init /\ [][EditNext]_vars

\* where the player walks to: two chunks east of the spawn chunk
FarPosition == [x |-> 40, y |-> 16, z |-> 0]

\* the player walks away once while the queue drains, and blocks are put
\* and removed over the network
PlayNext ==
  \/ \E doUnload \in BOOLEAN : InitChunks(doUnload)
  \/ \E doUnload \in BOOLEAN : Update(FarPosition, TRUE, doUnload)
  \/ \E useTimer \in BOOLEAN, windowOver \in BOOLEAN : ProcessBatch(useTimer, windowOver)
  \/ \E t \in {"STONE", Null} : BlockUpdate(<< 0, 30 * HU, 0 >>, t)

PlaySpec == Init /\ [][PlayNext]_vars

\* where a block is put before the player walks away: high above the
\* terrain of chunk (-1, 0), which the walk leaves behind
KeepPosition == << -1, 30 * HU, 0 >>

\* the render loop calls update(playerPosition) with the player two chunks
\* away from the spawn, at any time after the scene setup
Walk(doUnload) ==
  /\ calls > 0
  /\ lastPlayerChunk # PlayerChunk(FarPosition)
  /\ Commit(update(World, FarPosition, TRUE, doUnload))
  /\ call' = [NoCall EXCEPT !.op = "update", !.x = FarPosition.x, !.y = FarPosition.y,
                            !.z = FarPosition.z, !.doInit = TRUE, !.ran = TRUE,
                            !.doUnload = doUnload,
                            !.evicted = DOMAIN chunks \ DOMAIN chunks',
                            !.freed = Freed]
  /\ UNCHANGED << inventory, ticks, calls >>

\* a block is put and removed over the network, and the player walks away
\* before, between or after
KeepNext ==
  \/ InitChunks(FALSE)
  \/ \E doUnload \in BOOLEAN : Walk(doUnload)
  \/ \E useTimer \in BOOLEAN : ProcessBatch(useTimer, FALSE)
  \/ \E t \in {"STONE", Null} : BlockUpdate(KeepPosition, t)

KeepSpec == Init /\ [][KeepNext]_vars

\* GameView passes 5 as maxDistance, which is also castRay's default
RAY_DISTANCE == 5

\* where the camera stands when a ray is cast: at the spawn, in a chunk
\* that the walk leaves behind, and in a chunk that is never resident
RayOrigins ==
  {SpawnPosition, [x |-> -1, y |-> 4, z |-> -1], [x |-> 100, y |-> 16, z |-> 0]}

\* the block keys a ray is aimed at: the corner columns of the chunks
\* (0,0), (-1,-1), (-1,0) and (2,0), at every height
RayTargets ==
  {<< c[1], y, c[2] >> :
     c \in {<< 0, 0 >>, << -CHUNK_SIZE, -CHUNK_SIZE >>, << -CHUNK_SIZE, 0 >>,
            << 2 * CHUNK_SIZE, 0 >>},
     y \in 0..(2 * CHUNK_SIZE)}

\* the targets where some resident chunk stores a block, and one where a
\* block is put and removed over the network (a ray aimed at any other
\* empty place returns what it returns there)
BlocksAimedAt ==
  {t \in RayTargets :
     \/ t = << 0, 30, 0 >>
     \/ /\ getChunkKey(t[1], t[3]) \in DOMAIN chunks
        /\ t \in DOMAIN chunks[getChunkKey(t[1], t[3])].blocks}

\* GameView's mouse handlers and highlight: castRay from the camera
CastRay(origin, target, instanceHit) ==
  /\ calls > 0
  /\ LET r == castRay(World, origin, target, instanceHit)
     IN call' = [NoCall EXCEPT !.op = "castRay", !.x = origin.x, !.y = origin.y,
                               !.z = origin.z,
                               !.type = IF r = << >> THEN "" ELSE r[1].type,
                               !.ret = IF r = << >> THEN Null ELSE "block",
                               !.hit = r]
  /\ UNCHANGED << seed, rng, chunks, visibleChunks, updateQueue, isUpdating,
                  lastPlayerChunk, count, elapsed, instanceCount, instanceMatrix, scene,
                  timers, frames, batchMade, inventory, calls, ticks, generators,
                  noiseLog, terrain >>

\* the player walks away once while the queue drains, a block is put and
\* removed over the network, and rays are cast in between
RayNext ==
  \/ InitChunks(FALSE)
  \/ \E doUnload \in BOOLEAN : Update(FarPosition, TRUE, doUnload)
  \/ \E useTimer \in BOOLEAN : ProcessBatch(useTimer, FALSE)
  \/ \E t \in {"STONE", Null} : BlockUpdate(<< 0, 30 * HU, 0 >>, t)
  \/ \E origin \in RayOrigins, target \in BlocksAimedAt, instanceHit \in InstanceHits :
        CastRay(origin, target, instanceHit)

\* one world is enough for the rays: the one of the second seed, where the
\* chunks that the walk hides hold blocks
RayInit == Init /\ seed = 2

RaySpec == RayInit /\ [][RayNext]_vars

\* the seeds the generators are constructed with
NoiseSeeds == {0, 4242}

\* scaled coordinates in halves: on and between lattice points, below zero
NoisePoints == {-1, 0, 1, 3}

hostVars == << seed, rng, inventory, call, calls, ticks >>

\* two generators are constructed side by side: new NoiseGenerator(s1),
\* new NoiseGenerator(s2)
Construct(s1, s2) ==
  /\ generators = << >>
  /\ generators' = << NoiseGenerator(s1), NoiseGenerator(s2) >>
  /\ UNCHANGED << managerVars, hostVars, elapsed, batchMade, noiseLog, terrain >>

\* generators[n].noise(x, y, 0, useSecondary)
Noise(n, x, y, useSecondary) ==
  /\ generators # << >>
  /\ Cardinality(noiseLog) < MaxNoiseCalls
  /\ generators' = [generators EXCEPT
                      ![n] = noise(generators[n], x, y, 0, useSecondary).generator]
  /\ noiseLog' = noiseLog \cup
                   {[gen |-> n, fn |-> "noise", args |-> << x, y, 0, 1, 1, useSecondary >>,
                     ret |-> noise(generators[n], x, y, 0, useSecondary).ret]}
  /\ UNCHANGED << managerVars, hostVars, elapsed, batchMade, terrain >>

\* generators[n].fractalNoise(x, y, 0, octaves, 0.5, useSecondary)
FractalNoise(n, x, y, o, useSecondary) ==
  /\ generators # << >>
  /\ Cardinality(noiseLog) < MaxNoiseCalls
  /\ generators' = [generators EXCEPT
                      ![n] = fractalNoise(generators[n], x, y, 0, o, 1, useSecondary).generator]
  /\ noiseLog' = noiseLog \cup
                   {[gen |-> n, fn |-> "fractalNoise", args |-> << x, y, 0, o, 1, useSecondary >>,
                     ret |-> fractalNoise(generators[n], x, y, 0, o, 1, useSecondary).ret]}
  /\ UNCHANGED << managerVars, hostVars, elapsed, batchMade, terrain >>

NoiseNext ==
  \/ \E s1 \in NoiseSeeds, s2 \in NoiseSeeds : Construct(s1, s2)
  \/ \E n \in {1, 2}, x \in NoisePoints, y \in {-1, 0, 1}, useSecondary \in BOOLEAN :
        Noise(n, x, y, useSecondary)
  \/ \E n \in {1, 2}, x \in {1, 3}, y \in {0, 1}, o \in {1, 3}, useSecondary \in BOOLEAN :
        FractalNoise(n, x, y, o, useSecondary)

NoiseSpec == Init /\ [][NoiseNext]_vars

\* biome values around the thresholds 0.3, 0.6, 0.8 and at the ends, in
\* hundredths
BiomeValues == {0, 29, 30, 31, 50, 51, 59, 60, 61, 79, 80, 81, 100}

\* values a fractalNoise call can return, in hundredths
NoiseValues == {0, 10, 50, 100}

\* getTerrainHeight(x, z) at a place where the four fractalNoise calls
\* return these values
GetTerrainHeight(biomeValue, mainNoise, ridgeFractal, valleyNoise) ==
  /\ terrain' = TerrainHeightOf(biomeValue, mainNoise, ridgeFractal, valleyNoise)
  /\ UNCHANGED << managerVars, hostVars, elapsed, batchMade, generators, noiseLog >>

TerrainNext ==
  \E biomeValue \in BiomeValues, mainNoise \in NoiseValues,
     ridgeFractal \in NoiseValues, valleyNoise \in NoiseValues :
       GetTerrainHeight(biomeValue, mainNoise, ridgeFractal, valleyNoise)

TerrainSpec == Init /\ [][TerrainNext]_vars

----------------------------------------------------------------------------
(* Properties                                                              *)

\* the last handler was an initChunks or update call of the host
HostCalled == call.op \in {"initChunks", "update"}

\* the chunk of the position the host passed
CallChunk == PlayerChunk(call)

\* square of the Euclidean distance between two chunk coordinates
ChunkD2(a, b) == (a[1] - b[1]) * (a[1] - b[1]) + (a[2] - b[2]) * (a[2] - b[2])

\* the keys held by a queue
QueueKeys(q) == {q[i].key : i \in 1..Len(q)}

\* C1: between two consecutive resets of the block-creation counter, the
\* number of blocks stored while processUpdateQueue/processBatch generates
\* chunks never exceeds MAX_BLOCKS_PER_FRAME, trees included.
C1_BudgetEnforced == batchMade <= MAX_BLOCKS_PER_FRAME

\* C2 as stated: after any initChunks/update call, every chunk coordinate
\* of the visible set is within Euclidean distance RENDER_DISTANCE of the
\* player's chunk.
C2_EuclideanContainment ==
  HostCalled =>
    \A k \in visibleChunks : ChunkD2(k, CallChunk) <= RENDER_DISTANCE * RENDER_DISTANCE

\* C2, amended: after a call that went past the guard of initChunks, the
\* chunk the visible set is laid around is the player's chunk; and at all
\* times every chunk coordinate of the visible set is within Euclidean
\* distance RENDER_DISTANCE * sqrt(2) of that chunk (the corners of the
\* square are included).
C2_Containment ==
  /\ (HostCalled /\ call.ran) => lastPlayerChunk = CallChunk
  /\ \A k \in visibleChunks :
        ChunkD2(k, lastPlayerChunk) <= 2 * RENDER_DISTANCE * RENDER_DISTANCE

\* C2 is exercised: the player has moved two chunks along x, and a corner
\* of the new square is visible
C2_Witness ==
  /\ call.op = "update" /\ call.ran
  /\ lastPlayerChunk = << 2, 0 >>
  /\ << 4, 2 >> \in visibleChunks

\* C3 as stated: a key that leaves the update queue has been generated (its
\* chunk is resident with isGenerated set); no queued entry is dropped.
C3_NoCancellation ==
  [][\A k \in QueueKeys(updateQueue) \ QueueKeys(updateQueue') :
        k \in DOMAIN chunks' /\ chunks'[k].isGenerated]_vars

\* C3, amended: a key leaves the update queue only when its chunk has been
\* generated, or when an initChunks that went past its guard discarded the
\* queue; and a chunk that is evicted had been generated.
C3_CancelledOnlyByInit ==
  [][/\ \A k \in QueueKeys(updateQueue) \ QueueKeys(updateQueue') :
           \/ k \in DOMAIN chunks' /\ chunks'[k].isGenerated
           \/ call'.op \in {"initChunks", "update"} /\ call'.ran
      /\ \A gone \in DOMAIN chunks \ DOMAIN chunks' : chunks[gone].isGenerated]_vars

\* C3 is exercised: the player moved while the queue still held the far
\* corner of the first square, which is now neither queued nor resident
C3_Witness ==
  /\ call.op = "update" /\ call.ran
  /\ lastPlayerChunk = << 2, 0 >>
  /\ Len(updateQueue) > 0
  /\ << -2, 2 >> \notin DOMAIN chunks
  /\ << -2, 2 >> \notin QueueKeys(updateQueue)

\* the queue is empty, no chain of callbacks is running, and every chunk of
\* the visible set is resident and generated
Drained ==
  /\ updateQueue = << >>
  /\ ~isUpdating
  /\ \A k \in visibleChunks : k \in DOMAIN chunks /\ chunks[k].isGenerated

\* C4: once initChunks has run, if the pending timer and animation-frame
\* callbacks fire fairly, the update queue eventually becomes empty,
\* isUpdating returns to false and every chunk key of the visible set is a
\* resident generated chunk.
C4_QueueDrains == (lastPlayerChunk # NoChunk) ~> Drained

\* C4 is exercised: the twenty queued chunks of the first square have all
\* been generated by callbacks
C4_Witness ==
  /\ Drained
  /\ call.op = "processBatch"
  /\ lastPlayerChunk = << 0, 0 >>
  /\ Cardinality(DOMAIN chunks) = MAX_VISIBLE_CHUNKS

\* the block stored at height 0 of local column (x, z) of chunk k is solid
SolidFloor(k, x, z) ==
  LET blockKey == getBlockKey(k[1] * CHUNK_SIZE + x, 0, k[2] * CHUNK_SIZE + z)
  IN /\ BlockExists(chunks[k], blockKey)
     /\ chunks[k].blocks[blockKey].type \notin {"AIR", "WATER"}

\* C5: every chunk with isGenerated set holds a solid block at y = 0 in
\* each of its 16 x 16 columns.
C5_NoFallThrough ==
  \A k \in DOMAIN chunks :
     chunks[k].isGenerated =>
       \A x \in 0..(CHUNK_SIZE - 1), z \in 0..(CHUNK_SIZE - 1) : SolidFloor(k, x, z)

\* the square of side 2 * RENDER_DISTANCE + 1 around a chunk coordinate
SquareAround(c) ==
  {<< c[1] + dx, c[2] + dz >> : dx \in (-RENDER_DISTANCE)..RENDER_DISTANCE,
                                 dz \in (-RENDER_DISTANCE)..RENDER_DISTANCE}

\* C6 as stated: every update call whose player chunk differs from
\* lastPlayerChunk has, when it returns, made that chunk the last processed
\* one and the visible set the square around it.
C6_EveryUpdateRecomputes ==
  [][(call'.op = "update" /\ lastPlayerChunk # PlayerChunk(call'))
       => /\ lastPlayerChunk' = PlayerChunk(call')
          /\ visibleChunks' = SquareAround(PlayerChunk(call'))]_vars

\* C6, amended: an update call whose draw succeeds and whose player chunk
\* differs from lastPlayerChunk recomputes the visible set around the new
\* chunk before it returns; an update call whose draw fails changes nothing
\* in the manager.
C6_UpdateRecomputesOnDraw ==
  [][/\ (call'.op = "update" /\ call'.doInit /\ lastPlayerChunk # PlayerChunk(call'))
         => /\ lastPlayerChunk' = PlayerChunk(call')
            /\ visibleChunks' = SquareAround(PlayerChunk(call'))
     /\ (call'.op = "update" /\ ~call'.doInit) => UNCHANGED managerVars]_vars

\* C6 is exercised: an update whose draw succeeded has laid the visible
\* set around the chunk the player moved to
C6_Witness ==
  /\ call.op = "update" /\ call.doInit
  /\ CallChunk = << 2, 0 >>
  /\ visibleChunks = SquareAround(<< 2, 0 >>)

\* C7: when unloadDistantChunks has run, no chunk whose coordinate differs
\* from the player's chunk by RENDER_DISTANCE + 2 or more on either axis is
\* left in the chunk map or in the visible set.
C7_EvictionCorrect ==
  (HostCalled /\ call.doUnload) =>
    \A k \in DOMAIN chunks \cup visibleChunks :
       /\ Abs(k[1] - CallChunk[1]) < RENDER_DISTANCE + 2
       /\ Abs(k[2] - CallChunk[2]) < RENDER_DISTANCE + 2

\* C7 is exercised: the player moved two chunks along x and the call
\* evicted chunk (-2, 0), which is RENDER_DISTANCE + 2 away from the new one
C7_Witness ==
  /\ call.op = "update" /\ call.doUnload
  /\ CallChunk = << 2, 0 >>
  /\ << -2, 0 >> \in call.evicted

\* C8: an initChunks call (direct, or made by update) for the chunk that is
\* already lastPlayerChunk leaves the chunk map with every chunk's contents
\* and flags, the visible set, the update queue, isUpdating and the
\* block-creation counter unchanged.
C8_GuardIsNoOp ==
  [][(/\ call'.op \in {"initChunks", "update"}
      /\ call'.doInit
      /\ lastPlayerChunk = PlayerChunk(call'))
       => UNCHANGED << chunks, visibleChunks, updateQueue, isUpdating, count >>]_vars

\* C8 is exercised: update called initChunks for the chunk the player is
\* already in, while the queue still held entries
C8_Witness ==
  /\ call.op = "update" /\ call.doInit /\ ~call.ran
  /\ lastPlayerChunk = CallChunk
  /\ Len(updateQueue) > 0

\* C9: createBlock at a position of a chunk that already holds a block,
\* with any type, leaves the chunk's blockCount, the stored block (type
\* and render handle) and the instance slot counters unchanged.
C9_CreateBlockIdempotent ==
  \A k \in DOMAIN chunks : \A bk \in DOMAIN chunks[k].blocks :
    \A type \in BLOCK_TYPES, yU \in {bk[2] * HU, bk[2] * HU + 1} :
      LET after == createBlock(World, k, bk[1], yU, bk[3], type)
      IN /\ after.chunks[k].blockCount = chunks[k].blockCount
         /\ after.chunks[k].blocks[bk] = chunks[k].blocks[bk]
         /\ after.instanceCount = instanceCount

\* C9 is exercised: the last callback generated a chunk for which two
\* pines were drawn on the same column, so the top leaf of the second one
\* was created where the first one's already stood: of the three calls
\* made for top leaves after the 100 terrain blocks, two stored a block
C9_Witness ==
  /\ call.op = "processBatch"
  /\ rng > 1
  /\ Len(RandomTape[rng - 1].trees) = 3
  /\ RandomTape[rng - 1].trees[1] = RandomTape[rng - 1].trees[3]
  /\ count = MAX_BLOCKS_PER_FRAME + 3
  /\ batchMade = MAX_BLOCKS_PER_FRAME + 2

\* the arguments of the last call name a position whose chunk is not
\* resident or that holds a block
Rejectable(c) ==
  \/ getChunkKey(c.x, c.z) \notin DOMAIN chunks
  \/ BlockExists(chunks[getChunkKey(c.x, c.z)], getBlockKey(c.x, c.y, c.z))

\* C10: placeBlock returns false and leaves the chunk map, the blocks and
\* blockCount of every chunk, and the inventory unchanged when the chunk of
\* the position is not resident or the position already holds a block.
C10_PlaceBlockRejects ==
  [][(call'.op = "placeBlock" /\ Rejectable(call'))
       => call'.ret = "false" /\ UNCHANGED << chunks, inventory >>]_vars

\* C10 is exercised: placeBlock was called on a position that holds a
\* generated block and returned false
C10_Witness ==
  /\ call.op = "placeBlock" /\ call.ret = "false"
  /\ getChunkKey(call.x, call.z) \in DOMAIN chunks
  /\ BlockExists(chunks[getChunkKey(call.x, call.z)], getBlockKey(call.x, call.y, call.z))

\* the arguments of the last call name a position whose chunk is not
\* resident or that holds no block
NothingAt(c) ==
  \/ getChunkKey(c.x, c.z) \notin DOMAIN chunks
  \/ ~BlockExists(chunks[getChunkKey(c.x, c.z)], getBlockKey(c.x, c.y, c.z))

\* C11: removeBlock returns null and leaves every chunk's block map and
\* blockCount, the chunk meshes, the instance transforms and the scene
\* unchanged when the chunk of the position is not resident or the position
\* holds no block.
C11_RemoveBlockRejects ==
  [][(call'.op = "removeBlock" /\ NothingAt(call'))
       => call'.ret = Null /\ UNCHANGED << chunks, instanceMatrix, scene >>]_vars

\* C11 is exercised: removeBlock was called on an empty position of a
\* resident chunk that holds blocks, and returned null
C11_Witness ==
  /\ call.op = "removeBlock" /\ call.ret = Null
  /\ getChunkKey(call.x, call.z) \in DOMAIN chunks
  /\ chunks[getChunkKey(call.x, call.z)].blockCount > 0
  /\ ~BlockExists(chunks[getChunkKey(call.x, call.z)], getBlockKey(call.x, call.y, call.z))

\* the scene setup's initChunks has just returned
FirstCallDone == call.op = "initChunks" /\ call.ran

\* the manager in the middle of the first initChunks, when its two loops
\* over visibleChunkData are done (before updateChunkVisibility publishes
\* the set and the queue is started)
AfterLoops ==
  LoadVisible(StartUpdate(World, PlayerChunk(SpawnPosition)),
              VisibleChunkData(PlayerChunk(SpawnPosition)))

\* the chunk the first, synchronous processBatch takes from the queue
FirstQueued == << -1, -1 >>

\* the five chunks nearest to the player chunk
Nearest(c) == {k \in SquareAround(c) : ChunkD2(k, c) <= 1}

\* C12 as stated: when the first initChunks call on a fresh manager has
\* returned, exactly the 5 nearest chunks have been created and exactly the
\* 20 others are on the update queue.
C12_FiveCreatedTwentyQueued ==
  FirstCallDone =>
    /\ DOMAIN chunks = Nearest(lastPlayerChunk)
    /\ Len(updateQueue) = MAX_VISIBLE_CHUNKS - SYNC_CHUNKS

\* C12, amended: on a fresh manager the first initChunks enumerates 25
\* candidates, its loops create the 5 nearest and push the 20 others; the
\* call then starts the queue, whose first processBatch runs inside the
\* call, so that on return 6 chunks are resident (the 5 nearest and the
\* first queued one) and the 19 others are queued.
C12_SixCreatedNineteenQueued ==
  /\ calls = 0 =>
        /\ Len(ChunkDistances(PlayerChunk(SpawnPosition))) = 25
        /\ DOMAIN AfterLoops.chunks = Nearest(PlayerChunk(SpawnPosition))
        /\ Cardinality(DOMAIN AfterLoops.chunks) = 5
        /\ Len(AfterLoops.updateQueue) = 20
        /\ QueueKeys(AfterLoops.updateQueue) =
              SquareAround(PlayerChunk(SpawnPosition)) \ Nearest(PlayerChunk(SpawnPosition))
  /\ FirstCallDone =>
        /\ DOMAIN chunks = Nearest(lastPlayerChunk) \cup {FirstQueued}
        /\ Len(updateQueue) = 19
        /\ QueueKeys(updateQueue) = SquareAround(lastPlayerChunk) \ DOMAIN chunks
        /\ Cardinality(QueueKeys(updateQueue)) = 19

\* C12 is exercised: the first initChunks call has returned with six
\* chunks resident, the first queued one among them
C12_Witness ==
  /\ FirstCallDone
  /\ calls = 1
  /\ Cardinality(DOMAIN chunks) = 6
  /\ FirstQueued \in DOMAIN chunks

\* update was called with the player at (x = 0, y = 16, z = 0) and its
\* draw made it call initChunks
CalledAtOrigin ==
  call.op = "update" /\ call.doInit /\ call.x = 0 /\ call.y = 16 /\ call.z = 0

\* C13 as stated: for the player at (0, 16, 0) initChunks computes the
\* player chunk (0, 1); lastPlayerChunk is that chunk when it returns.
C13_PlayerChunkIsZeroOne ==
  CalledAtOrigin => (CallChunk = << 0, 1 >> /\ lastPlayerChunk = << 0, 1 >>)

\* C13, amended: for the player at (0, 16, 0) initChunks computes the
\* player chunk (0, 0), from x and z; the height y plays no part.
C13_PlayerChunkIsZeroZero ==
  CalledAtOrigin => (CallChunk = << 0, 0 >> /\ lastPlayerChunk = << 0, 0 >>)

\* C13 is exercised: initChunks has been called for the player at
\* (0, 16, 0) and the visible set lies around chunk (0, 0)
C13_Witness ==
  /\ CalledAtOrigin
  /\ visibleChunks = SquareAround(<< 0, 0 >>)

\* C14: a DIRT, STONE or GRASS block created while fewer than 1000 slots
\* of its type's batch are in use has an instanced render handle (the used
\* counts only grow, so a count below capacity now was below it when the
\* block was created), and the used count of a type is the number of slots
\* handed out.
C14_InstancedWhileRoom ==
  \A k \in DOMAIN chunks : \A bk \in DOMAIN chunks[k].blocks :
     LET block == chunks[k].blocks[bk]
     IN (block.type \in INSTANCED_BLOCK_TYPES /\ instanceCount[block.type] < INSTANCE_CAPACITY)
          => block.isInstanced /\ block.mesh.slot \in 0..(instanceCount[block.type] - 1)

\* local column (x, z) of chunk k holds a block at some height; the fill
\* loop of a column always asks for its top block
ColumnFilled(k, x, z) ==
  \E bk \in DOMAIN chunks[k].blocks :
     bk[1] = k[1] * CHUNK_SIZE + x /\ bk[3] = k[2] * CHUNK_SIZE + z

\* C15: every chunk with isGenerated set had generateTerrain run over all
\* of its 16 x 16 columns with no column's blocks skipped; in particular
\* each of its columns holds a block.
C15_GeneratedInFull ==
  \A k \in DOMAIN chunks :
     chunks[k].isGenerated =>
       \A x \in 0..(CHUNK_SIZE - 1), z \in 0..(CHUNK_SIZE - 1) : ColumnFilled(k, x, z)

\* C16: an exception raised while a chunk is created, or inside
\* initChunks, does not reach the caller; and when initChunks has returned
\* after passing its guard, or after its catch block ran, the chunk map is
\* not empty.
C16_FailurePolicy ==
  call.op = "initChunks" =>
    /\ call.ret = "returned"
    /\ (call.ran \/ ~call.position) => DOMAIN chunks # {}
    /\ \A k \in call.failing \cap DOMAIN chunks :
          chunks[k].blockCount = 0 => chunks[k].isGenerated

\* C16 is exercised: initChunks was called on a fresh manager with no
\* position while creating chunk (0, 0) fails; its catch block forced the
\* fallback chunk (0, 0) into the map, as a default chunk
C16_Witness ==
  /\ call.op = "initChunks" /\ ~call.position
  /\ << 0, 0 >> \in call.failing
  /\ DOMAIN chunks = {<< 0, 0 >>}
  /\ chunks[<< 0, 0 >>] = DefaultChunk(0, 0, FALLBACK_PRIORITY)

\* the sets initChunks hands to updateChunkVisibility: the squares around
\* the chunks the player can stand in
NewVisibleSets == {SquareAround(PlayerChunk(p)) : p \in PlayerPositions}

\* the manager after updateChunkVisibility(newVisibleChunks) in the current
\* state
Published(newVisibleChunks) == updateChunkVisibility(World, newVisibleChunks).chunks

\* C17: updateChunkVisibility leaves the set of resident chunks and every
\* chunk's block map and blockCount as they were; a resident chunk that
\* leaves the visible set ends with isVisible false and a hidden group, and a
\* resident chunk of the new set ends with isVisible true and a shown group.
C17_VisibilityOnlyTogglesFlags ==
  \A newVisibleChunks \in NewVisibleSets :
    /\ DOMAIN Published(newVisibleChunks) = DOMAIN chunks
    /\ \A k \in DOMAIN chunks :
          /\ Published(newVisibleChunks)[k].blocks = chunks[k].blocks
          /\ Published(newVisibleChunks)[k].blockCount = chunks[k].blockCount
          /\ k \in newVisibleChunks =>
                /\ Published(newVisibleChunks)[k].isVisible
                /\ Published(newVisibleChunks)[k].mesh.visible
          /\ k \in visibleChunks \ newVisibleChunks =>
                /\ ~Published(newVisibleChunks)[k].isVisible
                /\ ~Published(newVisibleChunks)[k].mesh.visible

\* an initChunks run has hidden a chunk that holds blocks: the chunk is out of
\* the visible set and still in the map, with its blocks
C17_Witness ==
  /\ call.ran
  /\ \E k \in DOMAIN chunks \ visibleChunks :
        /\ ~chunks[k].isVisible
        /\ ~chunks[k].mesh.visible
        /\ chunks[k].blockCount > 0
        /\ \E newVisibleChunks \in NewVisibleSets : k \in newVisibleChunks

\* the resident chunks whose isVisible flag is set
ResidentVisible == {k \in DOMAIN chunks : chunks[k].isVisible}

\* C18 as stated: getChunkCount() is the number of resident chunks flagged
\* visible.
C18_CountsResidentVisible == getChunkCount(World) = Cardinality(ResidentVisible)

\* C18, amended: getChunkCount() is the size of the visible set that the last
\* initChunks run published, which holds the keys of chunks still waiting in
\* the queue: 0 before the first run and the full square of chunks after it.
\* The resident chunks flagged visible are all in that set, so their number
\* is at most the count.
C18_CountsVisibleSet ==
  /\ getChunkCount(World) =
        IF lastPlayerChunk = NoChunk THEN 0
        ELSE Min((2 * RENDER_DISTANCE + 1) * (2 * RENDER_DISTANCE + 1), MAX_VISIBLE_CHUNKS)
  /\ ResidentVisible \subseteq visibleChunks
  /\ Cardinality(ResidentVisible) <= getChunkCount(World)

\* the scene setup's initChunks has returned: the count is the whole square
\* while only the chunks created so far are resident
C18_Witness ==
  /\ FirstCallDone
  /\ getChunkCount(World) = (2 * RENDER_DISTANCE + 1) * (2 * RENDER_DISTANCE + 1)
  /\ Cardinality(ResidentVisible) = SYNC_CHUNKS + 1

\* two generators constructed with the same seed hold the same tables
TablesAgree ==
  (generators # << >> /\ generators[1].given = generators[2].given) =>
    /\ generators[1].permutation = generators[2].permutation
    /\ generators[1].secondaryPermutation = generators[2].secondaryPermutation

\* two recorded calls of the same function with the same arguments, on
\* generators constructed with the same seed, returned the same value
LogConsistent ==
  \A a \in noiseLog, b \in noiseLog :
    (a.fn = b.fn /\ a.args = b.args /\ generators[a.gen].given = generators[b.gen].given)
      => a.ret = b.ret

ShapeChoices ==
  << terrain.persistence, terrain.octaves, terrain.scale, terrain.mountainHeight >>

\* C20: the base height of a getTerrainHeight call is 5 for a biome value
\* below 0.3, 8 from 0.3 to below 0.6, 12 from 0.6 to below 0.8 and 15 from
\* 0.8 on, and persistence, octaves, scale and mountain height are those of
\* the band the base height came from.
C20_BiomeBands ==
  terrain # NoTerrain =>
    /\ terrain.biomeValue < 30 => terrain.baseHeight = 5
    /\ (terrain.biomeValue >= 30 /\ terrain.biomeValue < 60) => terrain.baseHeight = 8
    /\ (terrain.biomeValue >= 60 /\ terrain.biomeValue < 80) => terrain.baseHeight = 12
    /\ terrain.biomeValue >= 80 => terrain.baseHeight = 15
    /\ terrain.baseHeight = 5 => ShapeChoices = << 40, 4, 8, 8 >>
    /\ terrain.baseHeight = 8 => ShapeChoices = << 50, 6, 10, 12 >>
    /\ terrain.baseHeight = 12 => ShapeChoices = << 55, 7, 13, 18 >>
    /\ terrain.baseHeight = 15 => ShapeChoices = << 60, 8, 16, 25 >>

\* getTerrainHeight was called where the biome value is 0.31: base height 8
\* with the choices of the hills band
C20_Witness ==
  /\ terrain.biomeValue = 31
  /\ terrain.baseHeight = 8
  /\ ShapeChoices = << 50, 6, 10, 12 >>
  /\ terrain.ret >= 8

\* C21: no step lowers the used-slot counter of a type; a slot that holds a
\* transform keeps it or is scaled to zero; and an instanced block stored by
\* the step that was not stored before holds a slot index that no block was
\* given before.
C21_SlotsNeverReclaimed ==
  [][/\ \A t \in DOMAIN instanceCount : instanceCount'[t] >= instanceCount[t]
     /\ \A sl \in DOMAIN instanceMatrix :
           /\ sl \in DOMAIN instanceMatrix'
           /\ instanceMatrix'[sl] \in {instanceMatrix[sl], ZeroScale}
     /\ \A k \in DOMAIN chunks' :
           \A blk \in InstancedBlocks(chunks'[k]) :
              \/ k \in DOMAIN chunks /\ blk \in InstancedBlocks(chunks[k])
              \/ blk.mesh.slot >= instanceCount[blk.type]]_vars

\* createBlock has stored a block of an instanced type and removeBlock has
\* removed it: the counter of that type is where it was
C21_Witness ==
  /\ call.op = "removeBlock"
  /\ call.ret \in INSTANCED_BLOCK_TYPES
  /\ getBlock(World, call.x, call.y, call.z) = << >>
  /\ instanceCount[call.ret] = 0

QueueBuilt(c) ==
  LoadVisible(StartUpdate([World EXCEPT !.failing = call'.failing], c),
              VisibleChunkData(c)).updateQueue

\* the entries of a queue
Entries(q) == {q[i] : i \in 1..Len(q)}

\* C23: the entry a processBatch callback pops has the highest priority of
\* the queue it pops from, also when initChunks filled that queue while the
\* chain was pending; and the entry popped by the processBatch that initChunks
\* runs itself has the highest priority of the queue initChunks built.
C23_PopsHighestPriority ==
  [][/\ (call'.op = "processBatch" /\ Len(updateQueue) > 0) =>
          /\ Entries(updateQueue) \ Entries(updateQueue') = {Head(updateQueue)}
          /\ \A e \in Entries(updateQueue) : e.priority <= Head(updateQueue).priority
     /\ (call'.ran /\ ~isUpdating) =>
          \A popped \in Entries(QueueBuilt(PlayerChunk(call'))) \ Entries(updateQueue') :
             \A e \in Entries(QueueBuilt(PlayerChunk(call'))) : e.priority <= popped.priority]_vars

\* a callback has popped an entry of the queue that initChunks filled after
\* the walk while the chain of the scene setup was still pending: some but
\* not all chunks of the two columns left behind are resident
C23_Witness ==
  /\ call.op = "processBatch"
  /\ lastPlayerChunk = PlayerChunk(FarPosition)
  /\ {k \in DOMAIN chunks : k[1] < 0} # {}
  /\ Cardinality({k \in DOMAIN chunks : k[1] < 0}) < 2 * (2 * RENDER_DISTANCE + 1)
  /\ Cardinality(DOMAIN chunks) > 2 * SYNC_CHUNKS + 1

\* the step ran processBatch: as a timer or animation-frame callback, or
\* inside an initChunks that found no chain running and a chunk to queue
RanProcessBatch ==
  \/ call'.op = "processBatch"
  \/ call'.ran /\ ~isUpdating /\ QueueBuilt(PlayerChunk(call')) # << >>

\* C24: after processBatch has run, a zero-delay timer is pending if the
\* queue is non-empty and the counter is below MAX_BLOCKS_PER_FRAME, an
\* animation frame is requested if the queue is non-empty and the counter has
\* reached MAX_BLOCKS_PER_FRAME, and with an empty queue nothing is pending
\* and isUpdating is false.
C24_TwoTierBackoff ==
  [][RanProcessBatch =>
       /\ (Len(updateQueue') > 0 /\ count' < MAX_BLOCKS_PER_FRAME) =>
             timers' = 1 /\ frames' = 0 /\ isUpdating'
       /\ (Len(updateQueue') > 0 /\ count' >= MAX_BLOCKS_PER_FRAME) =>
             timers' = 0 /\ frames' = 1 /\ isUpdating'
       /\ Len(updateQueue') = 0 => timers' = 0 /\ frames' = 0 /\ ~isUpdating']_vars

\* an initChunks whose chunk creations all failed has run processBatch with
\* the counter below the budget and left entries in the queue
C24_Witness ==
  /\ call.ran
  /\ call.failing # {}
  /\ Len(updateQueue) > 0
  /\ count < MAX_BLOCKS_PER_FRAME
  /\ timers = 1

\* a callback left entries in the queue with the counter at the budget
C24_WitnessFrame ==
  /\ call.op = "processBatch"
  /\ Len(updateQueue) > 0
  /\ count >= MAX_BLOCKS_PER_FRAME
  /\ frames = 1

\* a callback emptied the queue
C24_WitnessEmpty ==
  /\ call.op = "processBatch"
  /\ Len(updateQueue) = 0
  /\ ~isUpdating

\* C25: at most one processBatch continuation (timer or animation frame) is
\* pending, and isUpdating is true exactly when one is pending.
C25_SingleDrainChain ==
  /\ timers + frames <= 1
  /\ isUpdating <=> (timers + frames = 1)

\* initChunks has run while a continuation was pending and replaced the
\* queue: the chain of the scene setup is still the only one
C25_Witness ==
  /\ call.op = "update"
  /\ call.ran
  /\ Cardinality({k \in DOMAIN chunks \cup call.evicted : k[1] < 0})
       < 2 * (2 * RENDER_DISTANCE + 1)
  /\ Len(updateQueue) > 0
  /\ timers + frames = 1

\* C26: right after unloadDistantChunks every chunk left in the chunk map is
\* flagged visible and lies within RENDER_DISTANCE + 1 of the player chunk on
\* both axes; the removed keys are absent from the visible set, and only
\* chunks outside the visible square are removed.
C26_UnloadLeavesVisibleNearby ==
  [][call'.doUnload =>
       /\ \A k \in DOMAIN chunks' :
             /\ chunks'[k].isVisible
             /\ Abs(chunks'[k].position[1] - PlayerChunk(call')[1]) <= RENDER_DISTANCE + 1
             /\ Abs(chunks'[k].position[2] - PlayerChunk(call')[2]) <= RENDER_DISTANCE + 1
       /\ \A k \in call'.evicted :
             /\ k \notin visibleChunks'
             /\ k \notin DOMAIN chunks'
             /\ \/ Abs(k[1] - PlayerChunk(call')[1]) > RENDER_DISTANCE
                \/ Abs(k[2] - PlayerChunk(call')[2]) > RENDER_DISTANCE]_vars

\* unloadDistantChunks has removed a hidden chunk that lies within
\* RENDER_DISTANCE + 1 of the player chunk on both axes
C26_Witness ==
  /\ call.doUnload
  /\ \E k \in call.evicted :
        /\ Abs(k[1] - lastPlayerChunk[1]) <= RENDER_DISTANCE + 1
        /\ Abs(k[2] - lastPlayerChunk[2]) <= RENDER_DISTANCE + 1
        /\ k \notin DOMAIN chunks

\* C27: every coordinate of the visible set lies within RENDER_DISTANCE of
\* lastPlayerChunk on both axes, so the set has at most MAX_VISIBLE_CHUNKS
\* entries.
C27_VisibleSetAroundPlayer ==
  /\ visibleChunks # {} => lastPlayerChunk # NoChunk
  /\ \A k \in visibleChunks :
        /\ Abs(k[1] - lastPlayerChunk[1]) <= RENDER_DISTANCE
        /\ Abs(k[2] - lastPlayerChunk[2]) <= RENDER_DISTANCE
  /\ Cardinality(visibleChunks) <= MAX_VISIBLE_CHUNKS

\* the player has walked to another chunk and initChunks has published the
\* full square around it
C27_Witness ==
  /\ call.op = "update"
  /\ call.ran
  /\ lastPlayerChunk = PlayerChunk(call)
  /\ lastPlayerChunk # << 0, 0 >>
  /\ Cardinality(visibleChunks) = MAX_VISIBLE_CHUNKS

\* C28: every resident chunk of the visible set holds the priority
\* 1000 - floor(100 * distance) of its coordinate from lastPlayerChunk,
\* whether initChunks created it or a queue callback did.
C28_StoredPriority ==
  \A k \in DOMAIN chunks \cap visibleChunks :
     chunks[k].priority =
       Priority((k[1] - lastPlayerChunk[1]) * (k[1] - lastPlayerChunk[1])
                + (k[2] - lastPlayerChunk[2]) * (k[2] - lastPlayerChunk[2]))

\* C29: no chunk stores a block of type AIR, every stored block sits under
\* the key of its own position and is the only one whose mesh the chunk
\* group holds for that key, and its x and z lie inside the chunk's 16x16
\* footprint.
C29_BlockStoreWellFormed ==
  \A k \in DOMAIN chunks :
     /\ \A b \in DOMAIN chunks[k].blocks :
           /\ chunks[k].blocks[b].type # "AIR"
           /\ b = getBlockKey(chunks[k].blocks[b].position[1],
                              chunks[k].blocks[b].position[2],
                              chunks[k].blocks[b].position[3])
           /\ chunks[k].blocks[b].position[1] >= chunks[k].position[1] * CHUNK_SIZE
           /\ chunks[k].blocks[b].position[1] < chunks[k].position[1] * CHUNK_SIZE + CHUNK_SIZE
           /\ chunks[k].blocks[b].position[3] >= chunks[k].position[2] * CHUNK_SIZE
           /\ chunks[k].blocks[b].position[3] < chunks[k].position[2] * CHUNK_SIZE + CHUNK_SIZE
     /\ \A c \in chunks[k].mesh.children :
           c.material # "ground" =>
              /\ getBlockKey(c.at[1], c.at[2], c.at[3]) \in DOMAIN chunks[k].blocks
              /\ chunks[k].blocks[getBlockKey(c.at[1], c.at[2], c.at[3])].mesh = c

\* the network has placed AIR on a generated chunk: placeBlock returned
\* true and the chunk stores no block there
C29_Witness ==
  /\ call.op = "placeBlock"
  /\ call.type = "AIR"
  /\ call.ret = "true"
  /\ getChunkKey(call.x, call.z) \in DOMAIN chunks
  /\ chunks[getChunkKey(call.x, call.z)].blockCount > 0
  /\ getBlock(World, call.x, call.y, call.z) = << >>

\* C30: a block returned by castRay is stored, under its key, in the block
\* map of a chunk that is resident, in the visible set and flagged visible;
\* in particular it is not a block that was removed.
C30_RayHitsStoredVisible ==
  (call.op = "castRay" /\ call.hit # << >>) =>
     \E k \in DOMAIN chunks :
        /\ chunks[k].isVisible
        /\ k = getChunkKey(call.hit[1].position[1], call.hit[1].position[3])
        /\ getBlock(World, call.hit[1].position[1], call.hit[1].position[2],
                    call.hit[1].position[3]) = call.hit

\* castRay returned a block while a resident chunk is hidden and holds blocks
C30_Witness ==
  /\ call.op = "castRay"
  /\ call.hit # << >>
  /\ \E k \in DOMAIN chunks : ~chunks[k].isVisible /\ chunks[k].blockCount > 0

\* the lowest surface a column of chunk k can have been given, whatever the
\* draws for river and lake were (x, z local)
LowestSurface(k, x, z) ==
  LET hs == {HeightMap(seed, k, RandomTape[gi], x, z) : gi \in 1..Len(RandomTape)}
  IN CHOOSE h \in hs : \A other \in hs : h <= other

\* the blocks of chunk k that the block-fill pass stored strictly below the
\* surface of their column and that are not water
SubSurface(k) ==
  {b \in DOMAIN chunks[k].blocks :
     /\ chunks[k].blocks[b].type \notin {"WATER", "WOOD", "LEAVES"}
     /\ chunks[k].blocks[b].position[2]
          < LowestSurface(k, b[1] - k[1] * CHUNK_SIZE, b[3] - k[2] * CHUNK_SIZE)}

\* C31: a block stored strictly below its column's surface that is not water
\* has a y that is a multiple of 4 or stands in a column on the rim of its
\* chunk.
C31_SubSurfaceThinned ==
  \A k \in DOMAIN chunks :
     \A b \in SubSurface(k) :
        \/ chunks[k].blocks[b].position[2] % (4 * HU) = 0
        \/ b[1] - k[1] * CHUNK_SIZE \in {0, CHUNK_SIZE - 1}
        \/ b[3] - k[2] * CHUNK_SIZE \in {0, CHUNK_SIZE - 1}

\* the places, in units, where a tree of type tt with its base at
\* (x, baseYU, z) asks for a block of the given type
TreeCells(x, baseYU, z, tt, type) ==
  IF type = "WOOD"
  THEN {<< x, baseYU + y * HU, z >> : y \in 0..(tt.trunkHeight - 1)}
  ELSE {<< x + LeafCells(tt)[i].lx, baseYU + LeafCells(tt)[i].dy * HU, z + LeafCells(tt)[i].lz >> :
          i \in 1..Len(LeafCells(tt))}
       \cup (IF tt.conical THEN {<< x, baseYU + tt.trunkHeight * HU, z >>} ELSE {})

\* block blk of chunk k is part of tree t of the draws g, and t stands on a
\* stored GRASS block above WATER_LEVEL
GrownFrom(k, blk, g, t) ==
  LET treeX == k[1] * CHUNK_SIZE + t.x
      treeZ == k[2] * CHUNK_SIZE + t.z
      groundHeight == HeightMap(seed, k, g, t.x, t.z)
  IN /\ t.x \in 0..(CHUNK_SIZE - 1) /\ t.z \in 0..(CHUNK_SIZE - 1)
     /\ blk.position \in TreeCells(treeX, groundHeight + HU, treeZ, TREE_TYPES[t.type], blk.type)
     /\ groundHeight > WATER_LEVEL * HU
     /\ getBlock(World, treeX, groundHeight, treeZ) # << >>
     /\ getBlock(World, treeX, groundHeight, treeZ)[1].type = "GRASS"

\* C32: every WOOD or LEAVES block of a chunk lies inside the chunk's
\* footprint and is part of a tree that one of the draws of generateTerrain
\* starts at a column of that chunk whose stored surface block is GRASS and
\* whose ground height is above WATER_LEVEL; no draw asks for more than 3 trees.
C32_TreesOnGrassInChunk ==
  /\ \A gi \in 1..Len(RandomTape) : Len(RandomTape[gi].trees) <= 3
  /\ \A k \in DOMAIN chunks :
        \A b \in {bk \in DOMAIN chunks[k].blocks :
                    chunks[k].blocks[bk].type \in {"WOOD", "LEAVES"}} :
           /\ getChunkKey(b[1], b[3]) = k
           /\ \E gi \in 1..Len(RandomTape) :
                 \E i \in 1..Len(RandomTape[gi].trees) :
                    GrownFrom(k, chunks[k].blocks[b], RandomTape[gi], RandomTape[gi].trees[i])

\* a generated chunk holds a tree block
C32_Witness ==
  \E k \in DOMAIN chunks :
     /\ chunks[k].isGenerated
     /\ \E b \in DOMAIN chunks[k].blocks : chunks[k].blocks[b].type \in {"WOOD", "LEAVES"}

\* C33: when placeBlock has returned true, getBlock at the position returns
\* a block of the type that was passed, and the chunk's blockCount has grown
\* by exactly one.
C33_PlacementObservable ==
  [][(call'.op = "placeBlock" /\ call'.ret = "true") =>
       /\ getBlock([chunks |-> chunks'], call'.x, call'.y, call'.z) # << >>
       /\ getBlock([chunks |-> chunks'], call'.x, call'.y, call'.z)[1].type = call'.type
       /\ chunks'[getChunkKey(call'.x, call'.z)].blockCount
            = chunks[getChunkKey(call'.x, call'.z)].blockCount + 1]_vars

\* the block stored at KeepPosition, << >> if there is none
Kept(chunkMap) == getBlock([chunks |-> chunkMap], KeepPosition[1], KeepPosition[2], KeepPosition[3])

\* the step is a removeBlock call for KeepPosition
RemovedKept ==
  /\ call'.op = "removeBlock"
  /\ << call'.x, call'.y, call'.z >> = KeepPosition

\* C34 as stated: a block placed with placeBlock is returned by getBlock at
\* its position after every step that is not a removeBlock call for that
\* position.
C34_PlacedBlocksPersist ==
  [][Kept(chunks) # << >> => (Kept(chunks') = Kept(chunks) \/ RemovedKept)]_vars

\* C34, amended: a block placed with placeBlock is returned by getBlock at
\* its position after every step that is neither a removeBlock call for that
\* position nor an initChunks run whose unloadDistantChunks deleted the
\* block's chunk; after such a run getBlock returns null there.
C34_PlacedBlocksPersistUntilEvicted ==
  [][Kept(chunks) # << >> =>
       \/ Kept(chunks') = Kept(chunks)
       \/ RemovedKept
       \/ /\ call'.doUnload
          /\ getChunkKey(KeepPosition[1], KeepPosition[3]) \in call'.evicted
          /\ Kept(chunks') = << >>]_vars

\* the placed block is still returned after the player has walked away
\* without unloadDistantChunks and a queue callback has run: its chunk is
\* resident and hidden
C34_Witness ==
  /\ call.op = "processBatch"
  /\ lastPlayerChunk = PlayerChunk(FarPosition)
  /\ Kept(chunks) # << >>
  /\ Kept(chunks)[1].type = "STONE"
  /\ ~chunks[getChunkKey(KeepPosition[1], KeepPosition[3])].isVisible

\* C35: each resident chunk's blockCount equals the number of entries of
\* its block map, and is never negative.
C35_BlockCountIsMapSize ==
  \A k \in DOMAIN chunks :
     /\ chunks[k].blockCount = Cardinality(DOMAIN chunks[k].blocks)
     /\ chunks[k].blockCount >= 0

\* removeBlock has just taken a block out of a generated chunk that still
\* stores others
C35_Witness ==
  /\ call.op = "removeBlock"
  /\ call.ret # Null
  /\ getChunkKey(call.x, call.z) \in DOMAIN chunks
  /\ chunks[getChunkKey(call.x, call.z)].isGenerated
  /\ chunks[getChunkKey(call.x, call.z)].blockCount > 0
  /\ getBlock(World, call.x, call.y, call.z) = << >>

\* C36: a resident chunk is flagged visible exactly when its key is in the
\* visible set (the manager is never driven into the (0,0) fallback of
\* initChunks' catch block here).
C36_VisibleFlagMatchesSet ==
  \A k \in DOMAIN chunks : chunks[k].isVisible <=> k \in visibleChunks

\* the player has moved, a queue callback has then created a chunk that
\* was out of the first square, and a chunk of the first square is resident
\* and hidden
C36_Witness ==
  /\ call.op = "processBatch"
  /\ lastPlayerChunk # << 0, 0 >>
  /\ \E k \in DOMAIN chunks :
        /\ Abs(k[1]) > RENDER_DISTANCE \/ Abs(k[2]) > RENDER_DISTANCE
        /\ chunks[k].priority = 0
        /\ chunks[k].isVisible
  /\ \E k \in DOMAIN chunks : ~chunks[k].isVisible

\* the blocks of the chunks castRay would collect from that lie within
\* RAY_DISTANCE of the camera of the last call (heights are in 1/HU)
BlocksInReach ==
  UNION {{b \in DOMAIN chunks[k].blocks :
            HU * HU * (b[1] - call.x) * (b[1] - call.x)
              + (b[2] - HU * call.y) * (b[2] - HU * call.y)
              + HU * HU * (b[3] - call.z) * (b[3] - call.z)
              <= HU * HU * RAY_DISTANCE * RAY_DISTANCE} :
         k \in RayChunks(World)}

\* C37: castRay returns null whenever the chunk that contains the ray's
\* origin is not resident, whatever the visible chunks hold; every castRay
\* call returns, with null or a block.
C37_NullOutsideResidentChunks ==
  call.op = "castRay" =>
     /\ call.ret \in {Null, "block"}
     /\ getChunkKey(call.x, call.z) \notin DOMAIN chunks =>
           (call.hit = << >> /\ call.ret = Null)

\* castRay returned null for a camera in a chunk that is not resident while
\* a visible resident chunk holds a block within RAY_DISTANCE of the camera
C37_Witness ==
  /\ call.op = "castRay"
  /\ getChunkKey(call.x, call.z) \notin DOMAIN chunks
  /\ call.ret = Null
  /\ BlocksInReach # {}

\* the table indices read by a logged call: those of its noise call, or of
\* the noise calls of its octaves
LoggedIndices(e) ==
  IF e.fn = "noise"
  THEN NoiseIndices(generators[e.gen], e.args[1], e.args[2], e.args[3], e.args[6])
  ELSE UNION {NoiseIndices(generators[e.gen], e.args[1] * 2^i, e.args[2] * 2^i,
                           e.args[3] * 2^i, e.args[6]) : i \in 0..(e.args[4] - 1)}

\* C38: both lookup tables of a generator constructed with a non-negative
\* seed have 512 entries, each a whole number in 0..255, and every index at
\* which a noise call reads its table lies in 0..511.
C38_NoiseTablesInRange ==
  generators # << >> =>
     /\ \A n \in 1..Len(generators) :
           /\ generators[n].given >= 0
           /\ DOMAIN generators[n].permutation = 0..(2 * TABLE_SIZE - 1)
           /\ DOMAIN generators[n].secondaryPermutation = 0..(2 * TABLE_SIZE - 1)
           /\ \A i \in 0..(2 * TABLE_SIZE - 1) :
                 /\ generators[n].permutation[i] \in 0..(TABLE_SIZE - 1)
                 /\ generators[n].secondaryPermutation[i] \in 0..(TABLE_SIZE - 1)
     /\ \A e \in noiseLog : LoggedIndices(e) \subseteq 0..(2 * TABLE_SIZE - 1)

\* a noise call below zero on both axes has read the second copy of its
\* table, a fractalNoise call has been made too
C38_Witness ==
  /\ \E e \in noiseLog :
        /\ e.fn = "noise"
        /\ e.args[1] < 0 /\ e.args[2] < 0
        /\ \E i \in LoggedIndices(e) : i >= TABLE_SIZE + 2
  /\ \E e \in noiseLog : e.fn = "fractalNoise"

====
